---- MODULE Spec2Model ----
(***************************************************************************)
(* A model of the accumulation trading controller:                         *)
(*   - BinanceFilters.adjustQuantity / validateOrder (order sizing),       *)
(*   - BinanceFilters.getExchangeInfo / getTradingRules (rules resolver),  *)
(*   - AccumulationEngine (price history, SMA, RSI, getOptimalAction),     *)
(*   - AdvancedTradingEngine (start / stop / the 10 s control loop),       *)
(*   - syncServerTime / getAdjustedTimestamp (clock synchroniser).         *)
(*                                                                         *)
(* JavaScript numbers are modelled as exact rationals <<n, d>> (d > 0, in  *)
(* lowest terms).  The JavaScript run-to-completion rule is kept: every    *)
(* action is the code between two suspension points (await) of a handler.  *)
(***************************************************************************)
EXTENDS Integers, Sequences, FiniteSets, TLC

VARIABLES
    \* ---- BinanceFilters.validateOrder called on its own ----
    fIn,            \* the arguments of the call: [quantity, price, rules]
    fOut,           \* its return value (Null before the call returns)
    fAdj,           \* adjustQuantity(quantity, rules) and adjustQuantity of that result
    eOut,           \* a decision and what executeAction made of it (Null before)
    \* ---- AdvancedTradingEngine ----
    isActive,       \* this.isActive
    intervalId,     \* this.intervalId: a timer id, or NoTimer for null
    tradingRules,   \* this.tradingRules: Null or Some(TradingRules record)
    timers,         \* the intervals the runtime has scheduled (setInterval minus clearInterval)
    startPc,        \* per start() invocation: "idle" | "loading" | "running" | "failed"
    cyc,            \* per timer callback slot: the cycle's position and locals
    priceHistory,   \* this.accumulator.priceHistory (prices only)
    lastCall,       \* the caller's latest lifecycle call: "none" | "start" | "stop"
    out,            \* the console lines printed by the latest handler run
    ret,            \* the value the latest handler run returned (Null: none)
    \* ---- AccumulationEngine.getOptimalAction called on its own ----
    aIn,            \* the arguments of the latest call: [price, xrp, usdt]
    aOut,           \* its return value (Null before the first call)
    appended,       \* every price handed to getOptimalAction so far, in order
    \* ---- clock synchroniser ----
    now,            \* Date.now()
    timeOffset,     \* module variable timeOffset
    lastSyncTime,   \* module variable lastSyncTime
    sync,           \* per syncServerTime() invocation: its position and locals
    \* ---- BinanceFilters rules resolver ----
    exchangeInfo,   \* BinanceFilters.exchangeInfo: Null or Some(ExchangeInfo)
    lastFetch,      \* BinanceFilters.lastFetch
    req,            \* per getTradingRules() invocation: its position and locals
    \* ---- TradingEngine (stop-loss engine) and its exchange account ----
    state,          \* TradingEngine.state: the TradingState
    teIntervalId,   \* TradingEngine.intervalId: NoTimer or the handle kept
    teTimers,       \* the interval timers that are live
    proc,           \* per start() call and per timer callback: position, locals
    teLastCall,     \* the latest of start() and stop() that was called
    exchange        \* the account: free balances and open orders

vars == <<fIn, fOut, fAdj, eOut, isActive, intervalId, tradingRules, timers, startPc, cyc,
          priceHistory, lastCall, out, ret, aIn, aOut, appended,
          now, timeOffset, lastSyncTime, sync, exchangeInfo, lastFetch, req,
          state, teIntervalId, teTimers, proc, teLastCall, exchange>>

filterVars == <<fIn, fOut, fAdj, eOut>>
engineVars == <<isActive, intervalId, tradingRules, timers, startPc, cyc,
                priceHistory, lastCall, out, ret>>
accVars    == <<aIn, aOut, appended>>
clockVars  == <<now, timeOffset, lastSyncTime, sync>>
rulesVars  == <<exchangeInfo, lastFetch, req>>
stopLossVars == <<state, teIntervalId, teTimers, proc, teLastCall, exchange>>

\* An optional value (null or a value) is a sequence of length 0 or 1.
Null == <<>>
Some(x) == <<x>>

(***************************************************************************)
(* Exact rational arithmetic standing for JavaScript number arithmetic.    *)
(***************************************************************************)
RECURSIVE GCD(_, _)
GCD(a, b) == IF b = 0 THEN a ELSE GCD(b, a % b)

Abs(x) == IF x < 0 THEN -x ELSE x

\* n/d in lowest terms, d > 0.
Rat(n, d) ==
    LET g == GCD(Abs(n), d)
    IN  <<n \div g, d \div g>>

Int2Rat(n) == <<n, 1>>
Zero == <<0, 1>>

Lt(a, b) == a[1] * b[2] < b[1] * a[2]
Le(a, b) == a[1] * b[2] <= b[1] * a[2]
Gt(a, b) == Lt(b, a)
Add(a, b) == Rat(a[1] * b[2] + b[1] * a[2], a[2] * b[2])
Sub(a, b) == Rat(a[1] * b[2] - b[1] * a[2], a[2] * b[2])
Mul(a, b) == Rat(a[1] * b[1], a[2] * b[2])
\* a / b for b > 0
Div(a, b) == Rat(a[1] * b[2], a[2] * b[1])
\* Math.floor(a)
Floor(a) == a[1] \div a[2]
\* Math.min(a, b)
Min(a, b) == IF Lt(b, a) THEN b ELSE a

RECURSIVE Pow10(_)
Pow10(k) == IF k = 0 THEN 1 ELSE 10 * Pow10(k - 1)

\* Number.parseFloat(x.toFixed(digits)) for x >= 0: x rounded to the nearest
\* multiple of 10^-digits, the larger one on a tie.  A value that already is
\* such a multiple is returned as it is (and without forming x * 10^digits).
toFixed(x, digits) ==
    IF Pow10(digits) % x[2] = 0
    THEN x
    ELSE Rat((2 * x[1] * Pow10(digits) + x[2]) \div (2 * x[2]), Pow10(digits))

(***************************************************************************)
(* BinanceFilters.adjustQuantity and validateOrder                         *)
(***************************************************************************)
QtyDecimals == 8

\* adjustQuantity without the clamp to maxQty
adjustQuantity_NoClamp(quantity, rules) ==
    IF Lt(quantity, rules.minQty)
    THEN Zero
    ELSE LET steps == Floor(Div(quantity, rules.stepSize))
             adjustedQuantity == Mul(Int2Rat(steps), rules.stepSize)
         IN  toFixed(adjustedQuantity, QtyDecimals)

adjustQuantity(quantity, rules) ==
    IF Lt(quantity, rules.minQty)
    THEN Zero
    ELSE LET q     == IF Gt(quantity, rules.maxQty) THEN rules.maxQty ELSE quantity
             steps == Floor(Div(q, rules.stepSize))
             adjustedQuantity == Mul(Int2Rat(steps), rules.stepSize)
         IN  toFixed(adjustedQuantity, QtyDecimals)

\* validateOrder without the check of the notional value
validateOrder_NoNotional(quantity, price, rules) ==
    IF Lt(quantity, rules.minQty)
    THEN [valid |-> FALSE, adjustedQuantity |-> Zero, errors |-> <<"below minimum">>]
    ELSE LET adjustedQuantity == adjustQuantity(quantity, rules)
         IN  IF adjustedQuantity = Zero
             THEN [valid |-> FALSE, adjustedQuantity |-> Zero,
                   errors |-> <<"adjusted quantity is 0">>]
             ELSE [valid |-> TRUE, adjustedQuantity |-> adjustedQuantity,
                   errors |-> <<>>]

\* validateOrder that reports the adjusted quantity with a notional shortfall
validateOrder_KeepsQuantity(quantity, price, rules) ==
    IF Lt(quantity, rules.minQty)
    THEN [valid |-> FALSE, adjustedQuantity |-> Zero, errors |-> <<"below minimum">>]
    ELSE LET adjustedQuantity == adjustQuantity(quantity, rules)
             notionalValue    == Mul(adjustedQuantity, price)
         IN  IF adjustedQuantity = Zero
             THEN [valid |-> FALSE, adjustedQuantity |-> Zero,
                   errors |-> <<"adjusted quantity is 0">>]
             ELSE IF Lt(notionalValue, rules.minNotional)
             THEN [valid |-> FALSE, adjustedQuantity |-> adjustedQuantity,
                   errors |-> <<"notional below minimum">>]
             ELSE [valid |-> TRUE, adjustedQuantity |-> adjustedQuantity,
                   errors |-> <<>>]

validateOrder(quantity, price, rules) ==
    IF Lt(quantity, rules.minQty)
    THEN [valid |-> FALSE, adjustedQuantity |-> Zero, errors |-> <<"below minimum">>]
    ELSE LET adjustedQuantity == adjustQuantity(quantity, rules)
             notionalValue    == Mul(adjustedQuantity, price)
         IN  IF adjustedQuantity = Zero
             THEN [valid |-> FALSE, adjustedQuantity |-> Zero,
                   errors |-> <<"adjusted quantity is 0">>]
             ELSE IF Lt(notionalValue, rules.minNotional)
             THEN [valid |-> FALSE, adjustedQuantity |-> Zero,
                   errors |-> <<"notional below minimum">>]
             ELSE [valid |-> TRUE, adjustedQuantity |-> adjustedQuantity,
                   errors |-> <<>>]

(***************************************************************************)
(* AccumulationEngine: price history, indicators, getOptimalAction         *)
(***************************************************************************)
HistoryCap == 200
SmaShort == 20
SmaLong == 50
RsiPeriod == 14
\* 0/0
NaN == <<0, 0>>

\* this.priceHistory.slice(-k)
LastN(h, k) == IF Len(h) <= k THEN h ELSE SubSeq(h, Len(h) - k + 1, Len(h))

\* a buffer that drops the newest samples on overflow
addPriceData_KeepOldest(h, price) ==
    IF Len(h) < HistoryCap THEN Append(h, price) ELSE h

addPriceData(h, price) == LastN(Append(h, price), HistoryCap)

\* the sum of a sequence (exact, so the order of the additions is immaterial)
RECURSIVE SumSeq(_)
SumSeq(s) ==
    IF s = <<>> THEN Zero
    ELSE IF Len(s) = 1 THEN s[1]
    ELSE LET half == Len(s) \div 2
         IN  Add(SumSeq(SubSeq(s, 1, half)), SumSeq(SubSeq(s, half + 1, Len(s))))

\* an average that needs one sample more than the period
calculateSMA_OneMore(h, period) ==
    IF Len(h) <= period THEN Zero
    ELSE Div(SumSeq(LastN(h, period)), Int2Rat(period))

calculateSMA(h, period) ==
    IF Len(h) < period THEN Zero
    ELSE Div(SumSeq(LastN(h, period)), Int2Rat(period))

\* the sum of the positive (up = TRUE) or of the absolute negative and zero
\* (up = FALSE) changes between neighbours of prices
RECURSIVE SumChanges(_, _)
SumChanges(prices, up) ==
    IF Len(prices) < 2 THEN Zero
    ELSE LET change == Sub(prices[2], prices[1])
             rest   == SumChanges(Tail(prices), up)
         IN  IF up /\ Gt(change, Zero) THEN Add(rest, change)
             ELSE IF ~up /\ ~Gt(change, Zero) THEN Add(rest, Sub(Zero, change))
             ELSE rest

\* rsi without the test of the history's length
calculateRSI_NoGuard(h, period) ==
    LET prices == LastN(h, period + 1)
        gains  == SumChanges(prices, TRUE)
        losses == SumChanges(prices, FALSE)
    IN  IF losses = Zero
        THEN IF gains = Zero THEN NaN ELSE Int2Rat(100)
        ELSE Div(Mul(Int2Rat(100), gains), Add(gains, losses))

\* 100 - 100 / (1 + avgGain / avgLoss) in IEEE arithmetic: avgLoss = 0 gives
\* rs = Infinity and 100 when avgGain > 0, and rs = NaN and NaN when avgGain = 0.
calculateRSI(h, period) ==
    IF Len(h) < period + 1 THEN Int2Rat(50)
    ELSE LET prices == LastN(h, period + 1)
             gains  == SumChanges(prices, TRUE)
             losses == SumChanges(prices, FALSE)
         IN  IF losses = Zero
             THEN IF gains = Zero THEN NaN ELSE Int2Rat(100)
             ELSE Div(Mul(Int2Rat(100), gains), Add(gains, losses))

\* sma20, sma50 and rsi of getOptimalAction, on the history after addPriceData
Indicators(h) ==
    [sma20 |-> calculateSMA(h, SmaShort),
     sma50 |-> calculateSMA(h, SmaLong),
     rsi   |-> calculateRSI(h, RsiPeriod)]

\* signals that compare the price with sma20 without the test !sma20
Signals_NoUnknown(md, currentPrice) ==
    [trend |-> IF Gt(md.sma20, md.sma50) THEN "BULLISH" ELSE "BEARISH",
     momentum |-> IF md.rsi = NaN THEN "NEUTRAL"
                  ELSE IF Gt(md.rsi, Int2Rat(70)) THEN "OVERBOUGHT"
                  ELSE IF Lt(md.rsi, Int2Rat(30)) THEN "OVERSOLD"
                  ELSE "NEUTRAL",
     pricePosition |-> IF Gt(currentPrice, md.sma20) THEN "ABOVE_SMA"
                       ELSE "BELOW_SMA"]

\* the signals classified from the indicators md; !sma20 is true of 0
Signals(md, currentPrice) ==
    [trend |-> IF Gt(md.sma20, md.sma50) THEN "BULLISH" ELSE "BEARISH",
     momentum |-> IF md.rsi = NaN THEN "NEUTRAL"
                  ELSE IF Gt(md.rsi, Int2Rat(70)) THEN "OVERBOUGHT"
                  ELSE IF Lt(md.rsi, Int2Rat(30)) THEN "OVERSOLD"
                  ELSE "NEUTRAL",
     pricePosition |-> IF md.sma20 = Zero THEN "UNKNOWN"
                       ELSE IF Gt(currentPrice, md.sma20) THEN "ABOVE_SMA"
                       ELSE "BELOW_SMA"]

\* action = null
NoAction == [type |-> "NONE", confidence |-> Zero, amount |-> Zero]

\* a ladder that tries the SELL rule before the DCA BUY rule
ChooseAction_SellFirst(signals, xrpBalance, usdtBalance, baseAmount) ==
    IF signals.momentum = "OVERSOLD" /\ signals.pricePosition = "BELOW_SMA"
    THEN [type |-> "BUY", confidence |-> Rat(9, 10),
          amount |-> Min(Mul(usdtBalance, Rat(3, 10)), Mul(baseAmount, Rat(3, 10)))]
    ELSE IF signals.momentum = "OVERSOLD" \/ signals.pricePosition = "BELOW_SMA"
    THEN [type |-> "BUY", confidence |-> Rat(7, 10),
          amount |-> Min(Mul(usdtBalance, Rat(15, 100)), Mul(baseAmount, Rat(15, 100)))]
    ELSE IF /\ signals.momentum = "OVERBOUGHT"
            /\ signals.pricePosition = "ABOVE_SMA"
            /\ Gt(xrpBalance, Int2Rat(100))
    THEN [type |-> "SELL", confidence |-> Rat(6, 10),
          amount |-> Mul(xrpBalance, Rat(2, 10))]
    ELSE IF signals.trend = "BULLISH" /\ Gt(usdtBalance, Int2Rat(50))
    THEN [type |-> "BUY", confidence |-> Rat(5, 10),
          amount |-> Min(Mul(usdtBalance, Rat(5, 100)), Mul(baseAmount, Rat(5, 100)))]
    ELSE NoAction

\* a ladder whose SELL rule sells the whole base balance
ChooseAction_SellAll(signals, xrpBalance, usdtBalance, baseAmount) ==
    IF signals.momentum = "OVERSOLD" /\ signals.pricePosition = "BELOW_SMA"
    THEN [type |-> "BUY", confidence |-> Rat(9, 10),
          amount |-> Min(Mul(usdtBalance, Rat(3, 10)), Mul(baseAmount, Rat(3, 10)))]
    ELSE IF signals.momentum = "OVERSOLD" \/ signals.pricePosition = "BELOW_SMA"
    THEN [type |-> "BUY", confidence |-> Rat(7, 10),
          amount |-> Min(Mul(usdtBalance, Rat(15, 100)), Mul(baseAmount, Rat(15, 100)))]
    ELSE IF signals.trend = "BULLISH" /\ Gt(usdtBalance, Int2Rat(50))
    THEN [type |-> "BUY", confidence |-> Rat(5, 10),
          amount |-> Min(Mul(usdtBalance, Rat(5, 100)), Mul(baseAmount, Rat(5, 100)))]
    ELSE IF /\ signals.momentum = "OVERBOUGHT"
            /\ signals.pricePosition = "ABOVE_SMA"
            /\ Gt(xrpBalance, Int2Rat(100))
    THEN [type |-> "SELL", confidence |-> Rat(6, 10), amount |-> xrpBalance]
    ELSE NoAction

\* The action chosen from the signals and the balances; h is the history
\* after addPriceData(currentPrice).
ChooseAction(signals, xrpBalance, usdtBalance, baseAmount) ==
    IF signals.momentum = "OVERSOLD" /\ signals.pricePosition = "BELOW_SMA"
    THEN [type |-> "BUY", confidence |-> Rat(9, 10),
          amount |-> Min(Mul(usdtBalance, Rat(3, 10)), Mul(baseAmount, Rat(3, 10)))]
    ELSE IF signals.momentum = "OVERSOLD" \/ signals.pricePosition = "BELOW_SMA"
    THEN [type |-> "BUY", confidence |-> Rat(7, 10),
          amount |-> Min(Mul(usdtBalance, Rat(15, 100)), Mul(baseAmount, Rat(15, 100)))]
    ELSE IF signals.trend = "BULLISH" /\ Gt(usdtBalance, Int2Rat(50))
    THEN [type |-> "BUY", confidence |-> Rat(5, 10),
          amount |-> Min(Mul(usdtBalance, Rat(5, 100)), Mul(baseAmount, Rat(5, 100)))]
    ELSE IF /\ signals.momentum = "OVERBOUGHT"
            /\ signals.pricePosition = "ABOVE_SMA"
            /\ Gt(xrpBalance, Int2Rat(100))
    THEN [type |-> "SELL", confidence |-> Rat(6, 10),
          amount |-> Mul(xrpBalance, Rat(2, 10))]
    ELSE NoAction

\* The return value of getOptimalAction from the indicators and the signals
Decision(h2, md, signals, currentPrice, xrpBalance, usdtBalance, baseAmount) ==
    [history |-> h2,
     action  |-> ChooseAction(signals, xrpBalance, usdtBalance, baseAmount),
     signals |-> signals,
     marketData |-> [price |-> currentPrice, sma20 |-> md.sma20,
                     sma50 |-> md.sma50, rsi |-> md.rsi,
                     trend |-> signals.trend]]

\* getOptimalAction(currentPrice, xrpBalance, usdtBalance) on history h:
\* the new history and the returned action, signals and marketData.
getOptimalAction(h, currentPrice, xrpBalance, usdtBalance, baseAmount) ==
    LET h2 == addPriceData(h, currentPrice)
        md == Indicators(h2)
    IN  Decision(h2, md, Signals(md, currentPrice), currentPrice, xrpBalance,
                 usdtBalance, baseAmount)

(***************************************************************************)
(* AdvancedTradingEngine                                                   *)
(***************************************************************************)
MaxStarts == 2      \* start() invocations in one behaviour
MaxCycles == 2      \* timer callbacks that can be in flight together
MaxSamples == 2     \* prices a behaviour appends to the history

StartIds == 1 .. MaxStarts
CycleIds == 1 .. MaxCycles
NoTimer == 0

\* config.baseAmount
BaseAmount == Int2Rat(1000)

\* what the gateway and the exchange metadata may answer
Prices == {Int2Rat(90), Int2Rat(110)}
XrpBalances == {Int2Rat(0), Int2Rat(152)}
UsdtBalances == {Int2Rat(40), Int2Rat(1000)}
Rules1 == [minQty |-> Int2Rat(1), maxQty |-> Int2Rat(10000),
           stepSize |-> Int2Rat(1), minNotional |-> Int2Rat(10)]
Rules2 == [minQty |-> Int2Rat(5), maxQty |-> Int2Rat(10000),
           stepSize |-> Rat(1, 10), minNotional |-> Int2Rat(10)]
EngineRules == {Rules1, Rules2}

\* nineteen samples of 100: the history of an engine that has run before
SeedHistory == [i \in 1 .. 19 |-> Int2Rat(100)]

IdleCycle == [pc |-> "idle", timer |-> NoTimer, price |-> Zero, xrp |-> Zero,
              usdt |-> Zero, side |-> "NONE", quantity |-> Zero]

InFlight == {c \in CycleIds : cyc[c].pc # "idle"}

\* executeAction submitting the raw quantity in place of the adjusted one
executeAction_RawQuantity(action, currentPrice, rules) ==
    IF action.type = "BUY" /\ Gt(action.amount, rules.minNotional)
    THEN LET rawQuantity == Div(action.amount, currentPrice)
             validation  == validateOrder(rawQuantity, currentPrice, rules)
         IN  IF ~validation.valid
             THEN [submit |-> FALSE, side |-> "BUY", quantity |-> Zero,
                   log |-> "Order validation failed"]
             ELSE [submit |-> TRUE, side |-> "BUY",
                   quantity |-> rawQuantity, log |-> "BUYING"]
    ELSE IF action.type = "SELL" /\ Gt(action.amount, rules.minQty)
    THEN LET validation == validateOrder(action.amount, currentPrice, rules)
         IN  IF ~validation.valid
             THEN [submit |-> FALSE, side |-> "SELL", quantity |-> Zero,
                   log |-> "Sell order validation failed"]
             ELSE [submit |-> TRUE, side |-> "SELL",
                   quantity |-> action.amount, log |-> "SELLING"]
    ELSE [submit |-> FALSE, side |-> action.type, quantity |-> Zero,
          log |-> "Skipping order"]

\* executeAction up to the marketOrder call: whether an order is submitted,
\* its side and quantity, and the line logged.
executeAction(action, currentPrice, rules) ==
    IF action.type = "BUY" /\ Gt(action.amount, rules.minNotional)
    THEN LET rawQuantity == Div(action.amount, currentPrice)
             validation  == validateOrder(rawQuantity, currentPrice, rules)
         IN  IF ~validation.valid
             THEN [submit |-> FALSE, side |-> "BUY", quantity |-> Zero,
                   log |-> "Order validation failed"]
             ELSE [submit |-> TRUE, side |-> "BUY",
                   quantity |-> validation.adjustedQuantity, log |-> "BUYING"]
    ELSE IF action.type = "SELL" /\ Gt(action.amount, rules.minQty)
    THEN LET validation == validateOrder(action.amount, currentPrice, rules)
         IN  IF ~validation.valid
             THEN [submit |-> FALSE, side |-> "SELL", quantity |-> Zero,
                   log |-> "Sell order validation failed"]
             ELSE [submit |-> TRUE, side |-> "SELL",
                   quantity |-> validation.adjustedQuantity, log |-> "SELLING"]
    ELSE [submit |-> FALSE, side |-> action.type, quantity |-> Zero,
          log |-> "Skipping order"]

\* start(): up to the await of loadTradingRules()
Start(s) ==
    /\ startPc[s] = "idle"
    /\ \A r \in StartIds : r < s => startPc[r] # "idle"
    /\ isActive' = TRUE
    /\ startPc' = [startPc EXCEPT ![s] = "loading"]
    /\ lastCall' = "start"
    /\ out' = <<"Starting">>
    /\ UNCHANGED <<intervalId, tradingRules, timers, cyc, priceHistory>>
    /\ ret' = Null
    /\ UNCHANGED <<filterVars, clockVars, accVars, rulesVars, stopLossVars>>

\* start() resumed with the rules loaded: setInterval
LoadOk(s, rules) ==
    /\ startPc[s] = "loading"
    /\ tradingRules' = Some(rules)
    /\ intervalId' = s
    /\ timers' = timers \cup {s}
    /\ startPc' = [startPc EXCEPT ![s] = "running"]
    /\ out' = <<"Trading Rules", "Trading rules loaded">>
    /\ UNCHANGED <<isActive, cyc, priceHistory, lastCall>>
    /\ ret' = Null
    /\ UNCHANGED <<filterVars, clockVars, accVars, rulesVars, stopLossVars>>

\* a failed start() that leaves isActive set
LoadFail_StaysActive(s) ==
    /\ startPc[s] = "loading"
    /\ startPc' = [startPc EXCEPT ![s] = "failed"]
    /\ out' = <<"Failed to load trading rules", "Failed to start trading engine">>
    /\ UNCHANGED <<isActive, intervalId, tradingRules, timers, cyc, priceHistory, lastCall>>
    /\ ret' = Null
    /\ UNCHANGED <<filterVars, clockVars, accVars, rulesVars, stopLossVars>>

\* start() resumed with getTradingRules rejected: the error is rethrown
LoadFail(s) ==
    /\ startPc[s] = "loading"
    /\ isActive' = FALSE
    /\ startPc' = [startPc EXCEPT ![s] = "failed"]
    /\ out' = <<"Failed to load trading rules", "Failed to start trading engine">>
    /\ UNCHANGED <<intervalId, tradingRules, timers, cyc, priceHistory, lastCall>>
    /\ ret' = Null
    /\ UNCHANGED <<filterVars, clockVars, accVars, rulesVars, stopLossVars>>

Stop ==
    /\ isActive' = FALSE
    /\ IF intervalId # NoTimer
       THEN /\ timers' = timers \ {intervalId}
            /\ intervalId' = NoTimer
       ELSE UNCHANGED <<timers, intervalId>>
    /\ lastCall' = "stop"
    /\ out' = <<"Stopping">>
    /\ UNCHANGED <<tradingRules, startPc, cyc, priceHistory>>
    /\ ret' = Null
    /\ UNCHANGED <<filterVars, clockVars, accVars, rulesVars, stopLossVars>>

\* the history a behaviour may still grow (the model's bound on samples)
MaySample ==
    Len(priceHistory) + Cardinality(InFlight)
        < (IF Len(priceHistory) >= Len(SeedHistory) THEN Len(SeedHistory) ELSE 0)
          + MaxSamples

\* the interval callback without the test of isActive
Tick_Unguarded(t) ==
    /\ t \in timers
    /\ \/ /\ tradingRules = Null
          /\ out' = <<>>
          /\ UNCHANGED cyc
       \/ /\ tradingRules # Null
          /\ MaySample
          /\ \E c \in CycleIds :
                /\ cyc[c].pc = "idle"
                /\ \A b \in CycleIds : b < c => cyc[b].pc # "idle"
                /\ cyc' = [cyc EXCEPT ![c] = [IdleCycle EXCEPT !.pc = "getPrice",
                                                                !.timer = t]]
          /\ out' = <<>>
    /\ UNCHANGED <<isActive, intervalId, tradingRules, timers, startPc,
                   priceHistory, lastCall>>
    /\ ret' = Null
    /\ UNCHANGED <<filterVars, clockVars, accVars, rulesVars, stopLossVars>>

\* The interval callback of timer t: executeAccumulationStrategy up to the
\* await of getPrice.
Tick(t) ==
    /\ t \in timers
    /\ \/ /\ ~isActive \/ tradingRules = Null
          /\ out' = <<>>
          /\ UNCHANGED cyc
       \/ /\ isActive /\ tradingRules # Null
          /\ MaySample
          /\ \E c \in CycleIds :
                /\ cyc[c].pc = "idle"
                /\ \A b \in CycleIds : b < c => cyc[b].pc # "idle"
                /\ cyc' = [cyc EXCEPT ![c] = [IdleCycle EXCEPT !.pc = "getPrice",
                                                                !.timer = t]]
          /\ out' = <<>>
    /\ UNCHANGED <<isActive, intervalId, tradingRules, timers, startPc,
                   priceHistory, lastCall>>
    /\ ret' = Null
    /\ UNCHANGED <<filterVars, clockVars, accVars, rulesVars, stopLossVars>>

PriceOk(c, p) ==
    /\ cyc[c].pc = "getPrice"
    /\ cyc' = [cyc EXCEPT ![c].pc = "getXrp", ![c].price = p]
    /\ out' = <<>>
    /\ UNCHANGED <<isActive, intervalId, tradingRules, timers, startPc,
                   priceHistory, lastCall>>
    /\ ret' = Null
    /\ UNCHANGED <<filterVars, clockVars, accVars, rulesVars, stopLossVars>>

XrpOk(c, b) ==
    /\ cyc[c].pc = "getXrp"
    /\ cyc' = [cyc EXCEPT ![c].pc = "getUsdt", ![c].xrp = b]
    /\ out' = <<>>
    /\ UNCHANGED <<isActive, intervalId, tradingRules, timers, startPc,
                   priceHistory, lastCall>>
    /\ ret' = Null
    /\ UNCHANGED <<filterVars, clockVars, accVars, rulesVars, stopLossVars>>

\* getBalance("USDT") answered: the decision, executeAction and either the
\* marketOrder call or the end of the cycle
UsdtOk(c, b) ==
    /\ cyc[c].pc = "getUsdt"
    /\ \E decision \in {getOptimalAction(priceHistory, cyc[c].price, cyc[c].xrp,
                                          b, BaseAmount)} :
       \E e \in {IF decision.action = NoAction
                  THEN [submit |-> FALSE, side |-> "NONE", quantity |-> Zero,
                        log |-> "HOLD"]
                  ELSE executeAction(decision.action, cyc[c].price, tradingRules[1])} :
           /\ priceHistory' = decision.history
           /\ appended' = Append(appended, cyc[c].price)
           /\ IF e.submit
              THEN /\ cyc' = [cyc EXCEPT ![c].pc = "marketOrder", ![c].usdt = b,
                                         ![c].side = e.side,
                                         ![c].quantity = e.quantity]
                   /\ out' = <<"Market Analysis", e.log>>
              ELSE /\ cyc' = [cyc EXCEPT ![c] = IdleCycle]
                   /\ out' = <<"Market Analysis", e.log, "Accumulation Progress">>
    /\ UNCHANGED <<isActive, intervalId, tradingRules, timers, startPc, lastCall>>
    /\ ret' = Null
    /\ UNCHANGED <<filterVars, clockVars, aIn, aOut, rulesVars, stopLossVars>>

OrderOk(c) ==
    /\ cyc[c].pc = "marketOrder"
    /\ cyc' = [cyc EXCEPT ![c] = IdleCycle]
    /\ out' = <<"order executed successfully", "Accumulation Progress">>
    /\ UNCHANGED <<isActive, intervalId, tradingRules, timers, startPc,
                   priceHistory, lastCall>>
    /\ ret' = Null
    /\ UNCHANGED <<filterVars, clockVars, accVars, rulesVars, stopLossVars>>

\* a rejected marketOrder after which the cycle decides and submits again
OrderFail_Retries(c) ==
    /\ cyc[c].pc = "marketOrder"
    /\ cyc' = [cyc EXCEPT ![c].pc = "getUsdt"]
    /\ out' = <<"Order execution error">>
    /\ UNCHANGED <<isActive, intervalId, tradingRules, timers, startPc,
                   priceHistory, lastCall>>
    /\ ret' = Null
    /\ UNCHANGED <<filterVars, clockVars, accVars, rulesVars, stopLossVars>>

\* marketOrder rejected: caught in executeAction, the cycle goes on
OrderFail(c) ==
    /\ cyc[c].pc = "marketOrder"
    /\ cyc' = [cyc EXCEPT ![c] = IdleCycle]
    /\ out' = <<"Order execution error", "Accumulation Progress">>
    /\ UNCHANGED <<isActive, intervalId, tradingRules, timers, startPc,
                   priceHistory, lastCall>>
    /\ ret' = Null
    /\ UNCHANGED <<filterVars, clockVars, accVars, rulesVars, stopLossVars>>

\* a rejected call that stops the engine
GatewayFail_Stops(c) ==
    /\ cyc[c].pc \in {"getPrice", "getXrp", "getUsdt"}
    /\ cyc' = [cyc EXCEPT ![c] = IdleCycle]
    /\ out' = <<"Strategy execution error">>
    /\ isActive' = FALSE
    /\ timers' = timers \ {intervalId}
    /\ intervalId' = NoTimer
    /\ UNCHANGED <<tradingRules, startPc, priceHistory, lastCall>>
    /\ ret' = Null
    /\ UNCHANGED <<filterVars, clockVars, accVars, rulesVars, stopLossVars>>

\* getPrice or getBalance rejected: caught in executeAccumulationStrategy
GatewayFail(c) ==
    /\ cyc[c].pc \in {"getPrice", "getXrp", "getUsdt"}
    /\ cyc' = [cyc EXCEPT ![c] = IdleCycle]
    /\ out' = <<"Strategy execution error">>
    /\ UNCHANGED <<isActive, intervalId, tradingRules, timers, startPc,
                   priceHistory, lastCall>>
    /\ ret' = Null
    /\ UNCHANGED <<filterVars, clockVars, accVars, rulesVars, stopLossVars>>

\* config.strategy and config.accumulationTarget
Strategy == "accumulation"
AccumulationTarget == Int2Rat(10000)

\* a getStats that hands out the rules and forgets them
GetStats_DropsRules ==
    /\ ret' = Some([isActive |-> isActive, strategy |-> Strategy,
                    target |-> AccumulationTarget, tradingRules |-> tradingRules])
    /\ tradingRules' = Null
    /\ out' = <<>>
    /\ UNCHANGED <<isActive, intervalId, timers, startPc, cyc, priceHistory,
                   lastCall>>
    /\ UNCHANGED <<filterVars, clockVars, accVars, rulesVars, stopLossVars>>

\* getStats(): the record it returns
GetStats ==
    /\ ret' = Some([isActive |-> isActive, strategy |-> Strategy,
                    target |-> AccumulationTarget, tradingRules |-> tradingRules])
    /\ out' = <<>>
    /\ UNCHANGED <<isActive, intervalId, tradingRules, timers, startPc, cyc,
                   priceHistory, lastCall>>
    /\ UNCHANGED <<filterVars, clockVars, accVars, rulesVars, stopLossVars>>

(***************************************************************************)
(* Clock synchroniser: syncServerTime, getAdjustedTimestamp and the signed *)
(* request that calls them.  Times are milliseconds.                       *)
(***************************************************************************)
MaxSyncCalls == 2       \* signed requests in one behaviour
MaxClockSteps == 3      \* how often the clock is advanced

SyncIds == 1 .. MaxSyncCalls
SyncInterval == 5 * 60 * 1000
ClockStep == 150 * 1000
\* Date.now() when the process starts: any instant at least SyncInterval
\* after the epoch behaves alike.
StartNow == 2 * SyncInterval
\* server clock minus local clock
Skews == {0 - 1500, 2500}

\* callNow: the call's `now`; fetched: whether it issued the fetch; serverTime:
\* data.serverTime of an ok response; okAt: the call's localTime (0: no ok
\* response); timestamp: params.timestamp
IdleSync == [pc |-> "idle", callNow |-> 0, fetched |-> FALSE, serverTime |-> 0,
             okAt |-> 0, timestamp |-> 0]

\* the test with <= for <
RecentlySynced_Inclusive(n, last) == n - last <= SyncInterval

\* now - lastSyncTime < 5 * 60 * 1000
RecentlySynced(n, last) == n - last < SyncInterval

getAdjustedTimestamp == now + timeOffset

\* makeBinanceRequest begins and calls syncServerTime: the early return, or
\* the fetch of /v3/time is issued
SyncCall(p) ==
    /\ sync[p].pc = "idle"
    /\ \A q \in SyncIds : q < p => sync[q].pc # "idle"
    /\ IF RecentlySynced(now, lastSyncTime)
       THEN sync' = [sync EXCEPT ![p].pc = "synced", ![p].callNow = now]
       ELSE sync' = [sync EXCEPT ![p].pc = "fetching", ![p].callNow = now,
                                 ![p].fetched = TRUE]
    /\ UNCHANGED <<now, timeOffset, lastSyncTime>>
    /\ UNCHANGED <<filterVars, engineVars, accVars, rulesVars, stopLossVars>>

\* the fetch answered with response.ok
FetchOk(p, serverTime) ==
    /\ sync[p].pc = "fetching"
    /\ timeOffset' = serverTime - now
    /\ lastSyncTime' = now
    /\ sync' = [sync EXCEPT ![p].pc = "synced", ![p].serverTime = serverTime,
                             ![p].okAt = now]
    /\ UNCHANGED now
    /\ UNCHANGED <<filterVars, engineVars, accVars, rulesVars, stopLossVars>>

\* a failed fetch that is recorded as a sync
FetchFail_MarksSynced(p) ==
    /\ sync[p].pc = "fetching"
    /\ sync' = [sync EXCEPT ![p].pc = "synced"]
    /\ lastSyncTime' = now
    /\ UNCHANGED <<now, timeOffset>>
    /\ UNCHANGED <<filterVars, engineVars, accVars, rulesVars, stopLossVars>>

\* the fetch rejected, or answered with a status that is not ok
FetchFail(p) ==
    /\ sync[p].pc = "fetching"
    /\ sync' = [sync EXCEPT ![p].pc = "synced"]
    /\ UNCHANGED <<now, timeOffset, lastSyncTime>>
    /\ UNCHANGED <<filterVars, engineVars, accVars, rulesVars, stopLossVars>>

\* a request stamped with the local clock alone
Stamp_LocalTime(p) ==
    /\ sync[p].pc = "synced"
    /\ sync' = [sync EXCEPT ![p].pc = "sent", ![p].timestamp = now]
    /\ UNCHANGED <<now, timeOffset, lastSyncTime>>
    /\ UNCHANGED <<filterVars, engineVars, accVars, rulesVars, stopLossVars>>

\* makeBinanceRequest resumed: params.timestamp = getAdjustedTimestamp()
Stamp(p) ==
    /\ sync[p].pc = "synced"
    /\ sync' = [sync EXCEPT ![p].pc = "sent", ![p].timestamp = getAdjustedTimestamp]
    /\ UNCHANGED <<now, timeOffset, lastSyncTime>>
    /\ UNCHANGED <<filterVars, engineVars, accVars, rulesVars, stopLossVars>>

AdvanceClock ==
    /\ now < StartNow + MaxClockSteps * ClockStep
    /\ now' = now + ClockStep
    /\ UNCHANGED <<timeOffset, lastSyncTime, sync>>
    /\ UNCHANGED <<filterVars, engineVars, accVars, rulesVars, stopLossVars>>

(***************************************************************************)
(* BinanceFilters.getExchangeInfo / getTradingRules: the rules resolver and *)
(* its cache of the exchange metadata.  Times are those of the clock.      *)
(***************************************************************************)
MaxRuleCalls == 3       \* getTradingRules calls in one behaviour

ReqIds == 1 .. MaxRuleCalls
CacheInterval == 5 * 60 * 1000
RuleSymbols == {"XRPUSDT"}

\* An ExchangeInfo: the environment that answered and its symbols, each with
\* its LOT_SIZE filter and its MIN_NOTIONAL / NOTIONAL filter (Null: absent).
InfoFull(testnet) ==
    [testnet |-> testnet,
     symbols |-> <<[symbol |-> "BTCUSDT",
                    lotSize |-> Some([minQty |-> Rat(1, 1000), maxQty |-> Int2Rat(100),
                                      stepSize |-> Rat(1, 1000)]),
                    notional |-> Some(Int2Rat(10))],
                   [symbol |-> "XRPUSDT",
                    lotSize |-> Some([minQty |-> IF testnet THEN Int2Rat(1) ELSE Int2Rat(5),
                                      maxQty |-> Int2Rat(10000),
                                      stepSize |-> IF testnet THEN Int2Rat(1) ELSE Rat(1, 10)]),
                    notional |-> Some(Int2Rat(10))]>>]
InfoNoFilters(testnet) ==
    [testnet |-> testnet,
     symbols |-> <<[symbol |-> "XRPUSDT", lotSize |-> Null, notional |-> Null]>>]
InfoNoSymbol(testnet) ==
    [testnet |-> testnet,
     symbols |-> <<[symbol |-> "BTCUSDT",
                    lotSize |-> Some([minQty |-> Rat(1, 1000), maxQty |-> Int2Rat(100),
                                      stepSize |-> Rat(1, 1000)]),
                    notional |-> Some(Int2Rat(10))]>>]
\* a LOT_SIZE filter with stepSize "0.00000000"
InfoZeroStep(testnet) ==
    [testnet |-> testnet,
     symbols |-> <<[symbol |-> "XRPUSDT",
                    lotSize |-> Some([minQty |-> Int2Rat(1), maxQty |-> Int2Rat(10000),
                                      stepSize |-> Zero]),
                    notional |-> Some(Int2Rat(10))]>>]
\* a LOT_SIZE filter whose minQty is above its maxQty
InfoInvertedLot(testnet) ==
    [testnet |-> testnet,
     symbols |-> <<[symbol |-> "XRPUSDT",
                    lotSize |-> Some([minQty |-> Int2Rat(20000),
                                      maxQty |-> Int2Rat(10000),
                                      stepSize |-> Int2Rat(1)]),
                    notional |-> Some(Int2Rat(10))]>>]
\* the bodies /api/binance/exchangeInfo?testnet=... may answer with
Responses(testnet) ==
    {InfoFull(testnet), InfoNoFilters(testnet), InfoNoSymbol(testnet),
     InfoZeroStep(testnet), InfoInvertedLot(testnet)}

\* exchangeInfo.symbols.find((s) => s.symbol === symbol)
FindSymbol(info, symbol) ==
    LET idx == {i \in 1 .. Len(info.symbols) : info.symbols[i].symbol = symbol}
    IN  IF idx = {} THEN Null
        ELSE Some(info.symbols[CHOOSE i \in idx : \A j \in idx : i <= j])

\* getTradingRules after the await of getExchangeInfo: the error thrown, or
\* the rules built from the filters and the defaults
getTradingRules(info, symbol) ==
    LET symbolInfo == FindSymbol(info, symbol)
    IN  IF symbolInfo = Null
        THEN [ok |-> FALSE, rules |-> Null, error |-> "symbol not found"]
        ELSE LET lot == symbolInfo[1].lotSize
                 mn  == symbolInfo[1].notional
             IN  [ok |-> TRUE,
                  rules |-> Some([minQty |-> IF lot = Null THEN Zero ELSE lot[1].minQty,
                                  maxQty |-> IF lot = Null THEN Int2Rat(1000000)
                                             ELSE lot[1].maxQty,
                                  stepSize |-> IF lot = Null THEN Int2Rat(1)
                                               ELSE lot[1].stepSize,
                                  minNotional |-> IF mn = Null THEN Int2Rat(10)
                                                  ELSE mn[1]]),
                  error |-> ""]

\* callNow: the call's `now`; fetched: whether it issued the fetch; wrote:
\* whether its fetch was answered ok and written to the cache; info: the
\* ExchangeInfo it was given; rules, error: what it returned or threw
IdleReq == [pc |-> "idle", callNow |-> 0, fetched |-> FALSE, symbol |-> "",
            testnet |-> TRUE, wrote |-> FALSE, info |-> Null, rules |-> Null,
            error |-> ""]

\* the call's record once getTradingRules has run on info
Resolved(r, info, symbol) ==
    LET res == getTradingRules(info, symbol)
    IN  [r EXCEPT !.pc = IF res.ok THEN "done" ELSE "failed",
                  !.info = Some(info), !.rules = res.rules, !.error = res.error]

\* getTradingRules(symbol, testnet) begins: getExchangeInfo answers from the
\* cache, or issues the fetch
RulesCall(r, symbol, testnet) ==
    /\ req[r].pc = "idle"
    /\ \A q \in ReqIds : q < r => req[q].pc # "idle"
    /\ LET called == [IdleReq EXCEPT !.callNow = now, !.symbol = symbol,
                                     !.testnet = testnet]
       IN  IF exchangeInfo # Null /\ now - lastFetch < CacheInterval
           THEN req' = [req EXCEPT ![r] = Resolved(called, exchangeInfo[1], symbol)]
           ELSE req' = [req EXCEPT ![r] = [called EXCEPT !.pc = "fetching",
                                                        !.fetched = TRUE]]
    /\ UNCHANGED <<exchangeInfo, lastFetch>>
    /\ UNCHANGED <<filterVars, engineVars, accVars, clockVars, stopLossVars>>

\* the fetch answered ok with body info: the cache and lastFetch are written
InfoOk(r, info) ==
    /\ req[r].pc = "fetching"
    /\ exchangeInfo' = Some(info)
    /\ lastFetch' = req[r].callNow
    /\ req' = [req EXCEPT ![r] = Resolved([req[r] EXCEPT !.wrote = TRUE], info,
                                          req[r].symbol)]
    /\ UNCHANGED <<filterVars, engineVars, accVars, clockVars, stopLossVars>>

InfoFail_ClearsCache(r) ==
    /\ req[r].pc = "fetching"
    /\ req' = [req EXCEPT ![r].pc = "failed", ![r].error = "fetch failed"]
    /\ exchangeInfo' = Null
    /\ UNCHANGED lastFetch
    /\ UNCHANGED <<filterVars, engineVars, accVars, clockVars, stopLossVars>>

\* the fetch rejected, or answered with a status that is not ok
InfoFail(r) ==
    /\ req[r].pc = "fetching"
    /\ req' = [req EXCEPT ![r].pc = "failed", ![r].error = "fetch failed"]
    /\ UNCHANGED <<exchangeInfo, lastFetch>>
    /\ UNCHANGED <<filterVars, engineVars, accVars, clockVars, stopLossVars>>

(***************************************************************************)
(* validateOrder called on its own, on arguments drawn from small grids    *)
(***************************************************************************)
MaxQtyQuarters == 12    \* quantities 0, 1/4, ..., MaxQtyQuarters/4

FilterQuantities == {Rat(k, 4) : k \in 0 .. MaxQtyQuarters} \cup {Rat(10, 3)}
FilterPrices == {Rat(1, 2), Int2Rat(2), Int2Rat(7)}
FilterRules ==
    [minQty : {Zero, Rat(1, 2), Int2Rat(1)},
     maxQty : {Int2Rat(2), Rat(5, 2)},
     stepSize : {Rat(1, 4), Rat(3, 10), Rat(1, 3), Int2Rat(1)},
     minNotional : {Int2Rat(1), Int2Rat(5), Int2Rat(10)}]

ValidateOrderCall ==
    /\ fOut = Null
    /\ fOut' = Some(validateOrder(fIn.quantity, fIn.price, fIn.rules))
    /\ UNCHANGED <<fIn, fAdj, eOut>>
    /\ UNCHANGED <<engineVars, clockVars, accVars, rulesVars, stopLossVars>>

\* adjustQuantity on the call's quantity, then on its own result
AdjustQuantityCall ==
    /\ Len(fAdj) < 2
    /\ fAdj' = Append(fAdj, adjustQuantity(IF fAdj = <<>> THEN fIn.quantity
                                           ELSE fAdj[Len(fAdj)], fIn.rules))
    /\ UNCHANGED <<fIn, fOut, eOut>>
    /\ UNCHANGED <<engineVars, clockVars, accVars, rulesVars, stopLossVars>>

\* the signals a decision may carry, and the balances of the cycle
FilterSignals ==
    [trend : {"BULLISH", "BEARISH"},
     momentum : {"OVERSOLD", "NEUTRAL", "OVERBOUGHT"},
     pricePosition : {"UNKNOWN", "BELOW_SMA", "ABOVE_SMA"}]
FilterXrpBalances == {Int2Rat(152)}
FilterUsdtBalances == {Rat(350, 9), Int2Rat(60)}
\* the largest raw quantity the harness hands to executeAction
MaxFilterQuantity == Rat(10, 3)

\* the action chosen for some signals and balances, handed to executeAction
\* with the call's price and rules when it is not null (and its raw quantity
\* is within the harness's quantities)
ExecuteActionCall ==
    /\ eOut = Null
    /\ \E signals \in FilterSignals, x \in FilterXrpBalances, u \in FilterUsdtBalances :
       \E action \in {ChooseAction(signals, x, u, BaseAmount)} :
           /\ action # NoAction
           /\ Le(IF action.type = "BUY" THEN Div(action.amount, fIn.price)
                 ELSE action.amount, MaxFilterQuantity)
           /\ \E e \in {executeAction(action, fIn.price, fIn.rules)} :
                 eOut' = Some([action |-> action, xrp |-> x, usdt |-> u,
                               submit |-> e.submit, side |-> e.side,
                               quantity |-> e.quantity])
    /\ UNCHANGED <<fIn, fOut, fAdj>>
    /\ UNCHANGED <<engineVars, clockVars, accVars, rulesVars, stopLossVars>>

(***************************************************************************)
(* AccumulationEngine.getOptimalAction called on its own, on price series  *)
(* made of straight segments: the slope may change where a segment begins. *)
(***************************************************************************)
MaxAppends == 205       \* calls of getOptimalAction in one behaviour
MaxSegments == 2        \* segments whose slope is chosen freely
SegLen == 25            \* calls per segment

StartPrice == Int2Rat(300)
Slopes == {0 - 1, 0, 1}
AccXrpBalances == XrpBalances \cup {Int2Rat(150)}
AccUsdtBalances == UsdtBalances \cup {Zero}

\* nineteen prices of 1, which a price of 1 or of 0.90 may follow
UnitSeries == [i \in 1 .. 19 |-> Int2Rat(1)]
DropPrice == Rat(90, 100)

\* the prices the next call may be given
NextPrices ==
    IF appended = <<>> THEN {StartPrice, UnitSeries[1]}
    ELSE LET n    == Len(appended)
             last == appended[n]
         IN  IF appended[1] = UnitSeries[1]
             THEN IF n < Len(UnitSeries) THEN {UnitSeries[n + 1]}
                  ELSE IF n = Len(UnitSeries) THEN {last, DropPrice}
                  ELSE {}
             ELSE IF (n - 1) % SegLen = 0 /\ (n - 1) \div SegLen < MaxSegments
             THEN {Add(last, Int2Rat(d)) : d \in Slopes}
             ELSE {Add(last, Sub(last, appended[n - 1]))}

\* getOptimalAction(p, xrp, usdt) for every balance, on the engine's history
GetOptimalActionCall(p) ==
    /\ Len(appended) < MaxAppends
    /\ p \in NextPrices
    /\ \E h2 \in {addPriceData(priceHistory, p)} :
       \E md \in {Indicators(h2)} :
       \E x \in AccXrpBalances, u \in AccUsdtBalances :
       \E r \in {Decision(h2, md, Signals(md, p), p, x, u, BaseAmount)} :
           /\ priceHistory' = r.history
           /\ aOut' = Some([action |-> r.action, signals |-> r.signals,
                            marketData |-> r.marketData])
           /\ aIn' = [price |-> p, xrp |-> x, usdt |-> u]
    /\ appended' = Append(appended, p)
    /\ UNCHANGED <<isActive, intervalId, tradingRules, timers, startPc, cyc,
                   lastCall, out, ret>>
    /\ UNCHANGED <<filterVars, clockVars, rulesVars, stopLossVars>>

(***************************************************************************)
(* TradingEngine, the stop-loss engine: start, stop, updateState and       *)
(* executeTradingLogic, and the exchange account it trades on.  Amounts    *)
(* and prices are whole numbers here.  The account has no other user, so   *)
(* its open orders are the stop-loss orders of the engine (the engine      *)
(* places no BUY order: the waiting_to_buy branch only logs).              *)
(***************************************************************************)
MaxTeStarts == 2        \* start() calls in one behaviour
MaxTeCycles == 3        \* timer callbacks in one behaviour

TeStartIds == 1 .. MaxTeStarts
TeCycleIds == MaxTeStarts + 1 .. MaxTeStarts + MaxTeCycles
TeProcIds == TeStartIds \cup TeCycleIds

\* config.minTradeAmount and config.stopLossPercentage
MinTradeAmount == 10
StopLossPercentage == 5
\* what getPrice answers, and the base asset the account holds at first
ExchangePrice == 100
BaseHoldings == {20}

\* the state of the constructor
NewState ==
    [position |-> "holding", currentPrice |-> 0, baseBalance |-> 0,
     quoteBalance |-> 0, activeOrders |-> <<>>, isActive |-> FALSE]

\* pc: where the call is; base: the local baseBalance.free of updateState;
\* order: the stop-loss order it submitted (Null: none); stopSeen: stop()
\* had been called when the callback began, or was called during its
\* updateState; eligible: the stop-loss test held of the state it read
IdleProc == [pc |-> "idle", base |-> 0, order |-> Null, stopSeen |-> FALSE,
             eligible |-> FALSE]
Updating == {"getPrice", "getBase", "getQuote", "getOpenOrders"}

\* position === "holding" && baseBalance > minTradeAmount &&
\* activeOrders.length === 0
PlacesStopLoss(s) ==
    /\ s.position = "holding"
    /\ s.baseBalance > MinTradeAmount
    /\ Len(s.activeOrders) = 0

\* currentPrice * (1 - stopLossPercentage / 100)
StopPrice(s) == (s.currentPrice * (100 - StopLossPercentage)) \div 100

\* the position after the "orders were filled" test on the values read
FilledPosition(s) ==
    IF Len(s.activeOrders) = 0 /\ s.position # "holding"
    THEN IF s.baseBalance > MinTradeAmount THEN "holding"
         ELSE IF s.quoteBalance > MinTradeAmount THEN "waiting_to_buy"
         ELSE s.position
    ELSE s.position

TradingLogic_IgnoresActive(s) ==
    [place |-> PlacesStopLoss(s), position |-> FilledPosition(s)]

\* executeTradingLogic after its updateState, on state s, up to its await:
\* whether it calls stopLossOrder, and the position it leaves otherwise
TradingLogic(s) ==
    IF ~s.isActive THEN [place |-> FALSE, position |-> s.position]
    ELSE [place |-> PlacesStopLoss(s), position |-> FilledPosition(s)]

\* what follows the updateState of call p, which left state s: start()
\* sets the interval timer; a timer callback runs the trading logic
AfterUpdate(p, s) ==
    IF p \in TeStartIds
    THEN /\ state' = s
         /\ teIntervalId' = p
         /\ teTimers' = teTimers \cup {p}
         /\ proc' = [proc EXCEPT ![p].pc = "done"]
    ELSE /\ UNCHANGED <<teIntervalId, teTimers>>
         /\ \E l \in {TradingLogic(s)} :
              IF l.place
              THEN /\ state' = s
                   /\ proc' = [proc EXCEPT
                          ![p].pc = "stopLossOrder",
                          ![p].eligible = TRUE,
                          ![p].order = Some([side |-> "SELL",
                                             quantity |-> s.baseBalance,
                                             stopPrice |-> StopPrice(s)])]
              ELSE /\ state' = [s EXCEPT !.position = l.position]
                   /\ proc' = [proc EXCEPT ![p].pc = "done",
                                           ![p].eligible = PlacesStopLoss(s)]

\* start(): isActive = true, then updateState begins with getPrice
TeStart(p) ==
    /\ p \in TeStartIds
    /\ proc[p].pc = "idle"
    /\ \A q \in TeStartIds : q < p => proc[q].pc # "idle"
    /\ state' = [state EXCEPT !.isActive = TRUE]
    /\ proc' = [proc EXCEPT ![p].pc = "getPrice"]
    /\ teLastCall' = "start"
    /\ UNCHANGED <<teIntervalId, teTimers, exchange>>
    /\ UNCHANGED <<filterVars, engineVars, accVars, clockVars, rulesVars>>

TeStop_KeepsActive ==
    /\ teTimers' = teTimers \ {teIntervalId}
    /\ teIntervalId' = NoTimer
    /\ proc' = [q \in TeProcIds |->
                   IF q \in TeCycleIds /\ proc[q].pc \in Updating
                   THEN [proc[q] EXCEPT !.stopSeen = TRUE] ELSE proc[q]]
    /\ teLastCall' = "stop"
    /\ UNCHANGED <<state, exchange>>
    /\ UNCHANGED <<filterVars, engineVars, accVars, clockVars, rulesVars>>

\* stop(): isActive = false, and the timer of the handle kept is cleared
TeStop ==
    /\ state' = [state EXCEPT !.isActive = FALSE]
    /\ teTimers' = teTimers \ {teIntervalId}
    /\ teIntervalId' = NoTimer
    /\ proc' = [q \in TeProcIds |->
                   IF q \in TeCycleIds /\ proc[q].pc \in Updating
                   THEN [proc[q] EXCEPT !.stopSeen = TRUE] ELSE proc[q]]
    /\ teLastCall' = "stop"
    /\ UNCHANGED exchange
    /\ UNCHANGED <<filterVars, engineVars, accVars, clockVars, rulesVars>>

\* a live timer fires: executeTradingLogic begins with its updateState
TeTick(c) ==
    /\ c \in TeCycleIds
    /\ teTimers # {}
    /\ proc[c].pc = "idle"
    /\ \A q \in TeCycleIds : q < c => proc[q].pc # "idle"
    /\ proc' = [proc EXCEPT ![c].pc = "getPrice",
                            ![c].stopSeen = ~state.isActive]
    /\ UNCHANGED <<state, teIntervalId, teTimers, teLastCall, exchange>>
    /\ UNCHANGED <<filterVars, engineVars, accVars, clockVars, rulesVars>>

\* updateState: getPrice answered
TeGetPrice(p) ==
    /\ proc[p].pc = "getPrice"
    /\ state' = [state EXCEPT !.currentPrice = ExchangePrice]
    /\ proc' = [proc EXCEPT ![p].pc = "getBase"]
    /\ UNCHANGED <<teIntervalId, teTimers, teLastCall, exchange>>
    /\ UNCHANGED <<filterVars, engineVars, accVars, clockVars, rulesVars>>

\* updateState: getBalance(baseAsset) answered
TeGetBaseBalance(p) ==
    /\ proc[p].pc = "getBase"
    /\ proc' = [proc EXCEPT ![p].pc = "getQuote", ![p].base = exchange.base]
    /\ UNCHANGED <<state, teIntervalId, teTimers, teLastCall, exchange>>
    /\ UNCHANGED <<filterVars, engineVars, accVars, clockVars, rulesVars>>

\* updateState: getBalance(quoteAsset) answered; both balances are stored
TeGetQuoteBalance(p) ==
    /\ proc[p].pc = "getQuote"
    /\ state' = [state EXCEPT !.baseBalance = proc[p].base,
                              !.quoteBalance = exchange.quote]
    /\ proc' = [proc EXCEPT ![p].pc = "getOpenOrders"]
    /\ UNCHANGED <<teIntervalId, teTimers, teLastCall, exchange>>
    /\ UNCHANGED <<filterVars, engineVars, accVars, clockVars, rulesVars>>

\* updateState: getOpenOrders answered, and the caller goes on
TeGetOpenOrders(p) ==
    /\ proc[p].pc = "getOpenOrders"
    /\ AfterUpdate(p, [state EXCEPT !.activeOrders = exchange.open])
    /\ UNCHANGED <<teLastCall, exchange>>
    /\ UNCHANGED <<filterVars, engineVars, accVars, clockVars, rulesVars>>

\* updateState: one of its requests fails; the catch logs, the fields
\* written so far stay, and the caller goes on
TeUpdateFail(p) ==
    /\ proc[p].pc \in Updating
    /\ AfterUpdate(p, state)
    /\ UNCHANGED <<teLastCall, exchange>>
    /\ UNCHANGED <<filterVars, engineVars, accVars, clockVars, rulesVars>>

\* stopLossOrder answered: the exchange holds the order and locks the
\* quantity, and position becomes waiting_to_sell
TeStopLossOk(c) ==
    /\ proc[c].pc = "stopLossOrder"
    /\ exchange.base >= proc[c].order[1].quantity
    /\ exchange' = [exchange EXCEPT
                       !.base = @ - proc[c].order[1].quantity,
                       !.open = Append(@, proc[c].order[1])]
    /\ state' = [state EXCEPT !.position = "waiting_to_sell"]
    /\ proc' = [proc EXCEPT ![c].pc = "done"]
    /\ UNCHANGED <<teIntervalId, teTimers, teLastCall>>
    /\ UNCHANGED <<filterVars, engineVars, accVars, clockVars, rulesVars>>

\* stopLossOrder fails (the request, or the exchange rejects the order):
\* the catch logs and position stays
TeStopLossFail(c) ==
    /\ proc[c].pc = "stopLossOrder"
    /\ proc' = [proc EXCEPT ![c].pc = "done"]
    /\ UNCHANGED <<state, teIntervalId, teTimers, teLastCall, exchange>>
    /\ UNCHANGED <<filterVars, engineVars, accVars, clockVars, rulesVars>>

\* the exchange fills the oldest open stop-loss order at its stop price
ExchangeFill ==
    /\ exchange.open # <<>>
    /\ exchange' = [exchange EXCEPT
                       !.quote = @ + Head(exchange.open).quantity
                                     * Head(exchange.open).stopPrice,
                       !.open = Tail(@)]
    /\ UNCHANGED <<state, teIntervalId, teTimers, proc, teLastCall>>
    /\ UNCHANGED <<filterVars, engineVars, accVars, clockVars, rulesVars>>

(***************************************************************************)
(* Specifications                                                          *)
(***************************************************************************)
FilterIdle ==
    /\ fIn = [quantity |-> Zero, price |-> Int2Rat(1), rules |-> Rules1]
    /\ fOut = Null
    /\ fAdj = <<>>
    /\ eOut = Null

\* A new engine, or an engine that was started, ran nineteen cycles at a
\* price of 100 and was stopped: its rules and its history stay.
RulesIdle ==
    /\ exchangeInfo = Null
    /\ lastFetch = 0
    /\ req = [r \in ReqIds |-> IdleReq]

\* a new TradingEngine on an account that holds base
TeInit(base) ==
    /\ state = NewState
    /\ teIntervalId = NoTimer
    /\ teTimers = {}
    /\ proc = [p \in TeProcIds |-> IdleProc]
    /\ teLastCall = "none"
    /\ exchange = [base |-> base, quote |-> 0, open |-> <<>>]

StopLossIdle == TeInit(0)

AccIdle ==
    /\ aIn = [price |-> Zero, xrp |-> Zero, usdt |-> Zero]
    /\ aOut = Null

EngineInit ==
    /\ isActive = FALSE
    /\ intervalId = NoTimer
    /\ timers = {}
    /\ startPc = [s \in StartIds |-> "idle"]
    /\ cyc = [c \in CycleIds |-> IdleCycle]
    /\ lastCall = "none"
    /\ out = <<>>
    /\ ret = Null
    /\ \/ tradingRules = Null /\ priceHistory = <<>> /\ appended = <<>>
       \/ /\ tradingRules = Some(Rules1)
          /\ priceHistory = SeedHistory
          /\ appended = SeedHistory

EngineIdle ==
    /\ isActive = FALSE
    /\ intervalId = NoTimer
    /\ timers = {}
    /\ startPc = [s \in StartIds |-> "idle"]
    /\ cyc = [c \in CycleIds |-> IdleCycle]
    /\ lastCall = "none"
    /\ out = <<>>
    /\ ret = Null
    /\ tradingRules = Null
    /\ priceHistory = <<>>
    /\ appended = <<>>

ClockInit ==
    /\ now = StartNow
    /\ timeOffset = 0
    /\ lastSyncTime = 0
    /\ sync = [p \in SyncIds |-> IdleSync]

Init == FilterIdle /\ EngineInit /\ AccIdle /\ ClockInit /\ RulesIdle /\ StopLossIdle

Next ==
    \/ \E s \in StartIds : Start(s)
    \/ \E s \in StartIds, r \in EngineRules : LoadOk(s, r)
    \/ \E s \in StartIds : LoadFail(s)
    \/ Stop
    \/ \E t \in StartIds : Tick(t)
    \/ \E c \in CycleIds, p \in Prices : PriceOk(c, p)
    \/ \E c \in CycleIds, b \in XrpBalances : XrpOk(c, b)
    \/ \E c \in CycleIds, b \in UsdtBalances : UsdtOk(c, b)
    \/ \E c \in CycleIds : OrderOk(c)
    \/ \E c \in CycleIds : OrderFail(c)
    \/ \E c \in CycleIds : GatewayFail(c)
    \/ GetStats

\* The control loop
Spec == Init /\ [][Next]_vars

InitClock == FilterIdle /\ EngineIdle /\ AccIdle /\ ClockInit /\ RulesIdle /\ StopLossIdle

NextClock ==
    \/ \E p \in SyncIds : SyncCall(p)
    \/ \E p \in SyncIds, k \in Skews : FetchOk(p, now + k)
    \/ \E p \in SyncIds : FetchFail(p)
    \/ \E p \in SyncIds : Stamp(p)
    \/ AdvanceClock

\* The clock synchroniser under signed requests
SpecClock == InitClock /\ [][NextClock]_vars

InitFilters ==
    /\ fIn \in [quantity : FilterQuantities, price : FilterPrices, rules : FilterRules]
    /\ fOut = Null
    /\ fAdj = <<>>
    /\ eOut = Null
    /\ EngineIdle
    /\ AccIdle
    /\ ClockInit
    /\ RulesIdle
    /\ StopLossIdle

\* validateOrder, adjustQuantity and executeAction on every argument of the
\* grids
NextFilters ==
    \/ ValidateOrderCall
    \/ AdjustQuantityCall
    \/ ExecuteActionCall

SpecFilters == InitFilters /\ [][NextFilters]_vars

InitAccumulator == FilterIdle /\ EngineIdle /\ AccIdle /\ ClockInit /\ RulesIdle /\ StopLossIdle

NextAccumulator == \E p \in NextPrices : GetOptimalActionCall(p)

\* getOptimalAction called again and again on one AccumulationEngine
SpecAccumulator == InitAccumulator /\ [][NextAccumulator]_vars

InitRules == FilterIdle /\ EngineIdle /\ AccIdle /\ ClockInit /\ RulesIdle /\ StopLossIdle

NextRules ==
    \/ \E r \in ReqIds, symbol \in RuleSymbols, testnet \in BOOLEAN :
            RulesCall(r, symbol, testnet)
    \/ \E r \in ReqIds : \E info \in Responses(req[r].testnet) : InfoOk(r, info)
    \/ \E r \in ReqIds : InfoFail(r)
    \/ AdvanceClock

\* The rules resolver under calls of getTradingRules
SpecRules == InitRules /\ [][NextRules]_vars

InitStopLoss ==
    /\ FilterIdle /\ EngineIdle /\ AccIdle /\ ClockInit /\ RulesIdle
    /\ \E base \in BaseHoldings : TeInit(base)

NextStopLoss ==
    \/ \E p \in TeStartIds : TeStart(p)
    \/ TeStop
    \/ \E c \in TeCycleIds : TeTick(c)
    \/ \E p \in TeProcIds : TeGetPrice(p)
    \/ \E p \in TeProcIds : TeGetBaseBalance(p)
    \/ \E p \in TeProcIds : TeGetQuoteBalance(p)
    \/ \E p \in TeProcIds : TeGetOpenOrders(p)
    \/ \E p \in TeProcIds : TeUpdateFail(p)
    \/ \E c \in TeCycleIds : TeStopLossOk(c)
    \/ \E c \in TeCycleIds : TeStopLossFail(c)
    \/ ExchangeFill

\* The stop-loss engine under start(), stop() and its timer callbacks
SpecStopLoss == InitStopLoss /\ [][NextStopLoss]_vars

(***************************************************************************)
(* Properties of the control loop (checked under Spec)                     *)
(***************************************************************************)
\* cycle c calls marketOrder in this step
Submits(c) == cyc[c].pc # "marketOrder" /\ cyc'[c].pc = "marketOrder"
\* cycle c begins in this step
Begins(c) == cyc[c].pc = "idle" /\ cyc'[c].pc # "idle"
StartInProgress == \E s \in StartIds : startPc[s] = "loading"

\* C1: once stop() has been called (and until the next start()), no cycle
\* submits a marketOrder, a cycle that was awaiting getPrice or getBalance at
\* the time of the stop() included.
C1_NoOrderAfterStop ==
    [][\A c \in CycleIds : Submits(c) => lastCall # "stop"]_vars

\* C2: at most one cycle is in flight in every reachable state.
C2_CyclesMutuallyExclusive == Cardinality(InFlight) <= 1

\* C3: every marketOrder a cycle submits carries the adjustedQuantity of a
\* validateOrder call that returned valid for the cycle's price, the raw
\* quantity of the cycle's action and the loaded rules.
C3_OrdersPassValidation ==
    [][\A c \in CycleIds : Submits(c) =>
          LET price  == cyc[c].price
              action == getOptimalAction(priceHistory, price, cyc[c].xrp,
                                         cyc'[c].usdt, BaseAmount).action
              raw    == IF action.type = "BUY" THEN Div(action.amount, price)
                        ELSE action.amount
              v      == validateOrder(raw, price, tradingRules[1])
          IN  /\ action.type \in {"BUY", "SELL"}
              /\ v.valid
              /\ cyc'[c].side = action.type
              /\ cyc'[c].quantity = v.adjustedQuantity]_vars

\* an order is awaiting the gateway
C3_Witness == \E c \in CycleIds : cyc[c].pc = "marketOrder" /\ Gt(cyc[c].quantity, Zero)

\* the step ends cycle c on a rejected gateway call
FailsIn(c) ==
    /\ cyc[c].pc # "idle"
    /\ cyc'[c].pc = "idle"
    /\ out' # <<>>
    /\ out'[1] \in {"Strategy execution error", "Order execution error"}

\* C5: a rejected getPrice, getBalance or marketOrder ends its cycle and
\* nothing else: the active flag, the timer handle and the scheduled timers
\* are as before, no start() is failed by it, and the cycle's slot is free
\* for the next tick.
C5_CycleFailureContained ==
    [][\A c \in CycleIds : FailsIn(c) =>
          /\ isActive' = isActive
          /\ intervalId' = intervalId
          /\ timers' = timers
          /\ tradingRules' = tradingRules
          /\ startPc' = startPc
          /\ cyc'[c] = IdleCycle
          /\ \A b \in CycleIds \ {c} : cyc'[b] = cyc[b]]_vars

\* a cycle has just failed, the engine is active, its timer is scheduled and
\* the next tick would begin a cycle
C5_Witness ==
    /\ out # <<>>
    /\ out[1] \in {"Strategy execution error", "Order execution error"}
    /\ isActive /\ tradingRules # Null
    /\ intervalId \in timers
    /\ InFlight = {}
    /\ MaySample

C7_NoCycleBeginsAfterStop ==
    [][lastCall = "stop" => \A c \in CycleIds : ~Begins(c)]_vars

\* a timer is still scheduled after stop() and its tick has just run and
\* returned at once
C7_Witness ==
    /\ lastCall = "stop"
    /\ timers # {}
    /\ tradingRules # Null
    /\ InFlight = {}
    /\ out = <<>>

\* C8: whenever the engine is inactive and no start() is in progress, no
\* timer of the engine is scheduled.
C8_StopCancelsTimer == (~isActive /\ ~StartInProgress) => timers = {}

\* the raw quantity executeAction derives from the action
RawQuantity(action, price) ==
    IF action.type = "BUY" THEN Div(action.amount, price) ELSE action.amount

\* C31: a cycle calls marketOrder only from its decision step, and not when
\* validateOrder returned valid false; the answer to the order, accepted or
\* rejected, ends the cycle (no second order in it); a cycle begins with no
\* price and no balances, so its decision is made from the ones it fetches.
C31_OneOrderPerCycle ==
    [][\A c \in CycleIds :
          /\ Submits(c) => cyc[c].pc = "getUsdt"
          /\ (cyc[c].pc = "getUsdt" /\ cyc'[c].pc \notin {"getUsdt", "idle"}) =>
                LET action == getOptimalAction(priceHistory, cyc[c].price, cyc[c].xrp,
                                               cyc'[c].usdt, BaseAmount).action
                IN  /\ action # NoAction
                    /\ validateOrder(RawQuantity(action, cyc[c].price), cyc[c].price,
                                     tradingRules[1]).valid
                    /\ cyc'[c].pc = "marketOrder"
          /\ (cyc[c].pc = "marketOrder" /\ cyc'[c] # cyc[c]) => cyc'[c] = IdleCycle
          /\ Begins(c) =>
                cyc'[c] = [IdleCycle EXCEPT !.pc = "getPrice", !.timer = cyc'[c].timer]
         ]_vars

\* a cycle has just ended on a refused validation without an order, and the
\* engine is active for the next cycle
C31_Witness ==
    /\ out = <<"Market Analysis", "Order validation failed", "Accumulation Progress">>
    /\ InFlight = {}
    /\ isActive
    /\ intervalId \in timers
    /\ MaySample

\* the step belongs to a cycle: a tick, an answer of the gateway, the decision
CycleStep == \E c \in CycleIds : cyc'[c] # cyc[c]
\* the step is a call of getStats
StatsStep == ret' # Null

\* C34: a step of a cycle, whether the cycle goes on, submits, skips or
\* fails, leaves the active flag, the loaded rules and the timer handle as
\* they are; getStats returns the active flag and the rules and changes no
\* field of the engine; the three fields change only in steps of start()
\* and of stop().
C34_OnlyStartStopChangeState ==
    [][/\ CycleStep =>
            /\ isActive' = isActive
            /\ tradingRules' = tradingRules
            /\ intervalId' = intervalId
       /\ StatsStep =>
            /\ ret'[1].isActive = isActive
            /\ ret'[1].tradingRules = tradingRules
            /\ UNCHANGED <<isActive, intervalId, tradingRules, timers, startPc,
                           cyc, priceHistory, lastCall>>
       /\ (\/ isActive' # isActive
           \/ tradingRules' # tradingRules
           \/ intervalId' # intervalId) =>
            \/ startPc' # startPc
            \/ out' = <<"Stopping">>]_vars

\* getStats was called on an active engine in the middle of a cycle
C34_Witness ==
    /\ ret # Null
    /\ ret[1].isActive
    /\ ret[1].tradingRules # Null
    /\ ret[1].tradingRules = tradingRules
    /\ \E c \in CycleIds : cyc[c].pc = "marketOrder"

\* C25: in every reachable state at most one periodic timer of the engine is
\* scheduled, whatever the sequence of start() and stop() calls.
C25_AtMostOneTimer == Cardinality(timers) <= 1

(***************************************************************************)
(* Properties of validateOrder (checked under SpecFilters)                 *)
(***************************************************************************)
\* C4: validateOrder never returns valid with adjustedQuantity * price below
\* minNotional.
C4_ValidMeetsMinNotional ==
    (fOut # Null /\ fOut[1].valid) =>
        ~Lt(Mul(fOut[1].adjustedQuantity, fIn.price), fIn.rules.minNotional)

\* a call that returned valid
C4_Witness ==
    /\ fOut # Null
    /\ fOut[1].valid
    /\ Gt(fOut[1].adjustedQuantity, Zero)

(***************************************************************************)
(* Properties of the clock synchroniser (checked under SpecClock)          *)
(***************************************************************************)
Called(p) == sync[p].pc # "idle"
\* syncServerTime call p begins in this step
Calls(p) == sync[p].pc = "idle" /\ sync'[p].pc # "idle"
\* some call's fetch succeeded less than SyncInterval before instant n
SyncedWithin(n) ==
    \E p \in SyncIds : sync[p].okAt > 0 /\ n - sync[p].okAt < SyncInterval

\* C9: two syncServerTime calls made less than 5 minutes apart issue at
\* most one fetch between them.
C9_AtMostOneFetch ==
    \A p, q \in SyncIds :
        (/\ p # q
         /\ Called(p) /\ Called(q)
         /\ Abs(sync[p].callNow - sync[q].callNow) < SyncInterval)
        => ~(sync[p].fetched /\ sync[q].fetched)

\* C10: a call made less than 5 minutes after a successful sync issues no
\* fetch and changes neither timeOffset nor lastSyncTime; any other call
\* issues the fetch, and an ok response stores serverTime - localTime and
\* localTime; nothing else changes them, and a request stamped afterwards
\* carries local time plus the stored offset.
C10_SyncThenAdjust ==
    [][/\ \A p \in SyncIds : Calls(p) =>
              /\ sync'[p].fetched = ~SyncedWithin(now)
              /\ timeOffset' = timeOffset
              /\ lastSyncTime' = lastSyncTime
       /\ \A p \in SyncIds : (sync[p].okAt = 0 /\ sync'[p].okAt # 0) =>
              /\ timeOffset' = sync'[p].serverTime - now
              /\ lastSyncTime' = now
              /\ sync'[p].okAt = now
       /\ (timeOffset' # timeOffset \/ lastSyncTime' # lastSyncTime) =>
              \E p \in SyncIds : sync[p].okAt = 0 /\ sync'[p].okAt # 0
       /\ \A p \in SyncIds : (sync[p].pc = "synced" /\ sync'[p].pc = "sent") =>
              sync'[p].timestamp = now + timeOffset]_vars

\* a first call synced, a second one within 5 minutes returned without a
\* fetch and its request went out with the stored offset
C10_Witness ==
    /\ sync[1].okAt > 0
    /\ sync[2].pc = "sent"
    /\ ~sync[2].fetched
    /\ timeOffset # 0
    /\ sync[2].timestamp = now + sync[1].serverTime - sync[1].okAt

\* C11: a signed request is sent only after its syncServerTime call has
\* returned (with or without a fetch, with or without success), and its
\* timestamp parameter is the local time at that moment plus the offset
\* stored at that moment; the parameter is not set before.
C11_SignedRequestsStamped ==
    /\ [][\A p \in SyncIds : (sync[p].pc # "sent" /\ sync'[p].pc = "sent") =>
              /\ sync[p].pc = "synced"
              /\ sync[p].callNow > 0
              /\ sync'[p].timestamp = now + timeOffset]_vars
    /\ [](\A p \in SyncIds : sync[p].pc # "sent" => sync[p].timestamp = 0)

\* a request whose sync fetched and succeeded went out with a non-zero offset
C11_Witness ==
    \E p \in SyncIds :
        /\ sync[p].pc = "sent"
        /\ sync[p].fetched
        /\ sync[p].okAt > 0
        /\ timeOffset # 0
        /\ sync[p].timestamp = sync[p].okAt + timeOffset

\* the fetch of call p ends in this step without an ok response
SyncFails(p) ==
    sync[p].pc = "fetching" /\ sync'[p].pc # "fetching" /\ sync'[p].okAt = 0

\* C32: a server-time fetch that fails or is answered not ok changes neither
\* timeOffset nor lastSyncTime, and syncServerTime returns to the signed
\* request as after a sync; the request it sends is stamped with the local
\* time plus the offset of before.
C32_FailedSyncIsHarmless ==
    [][\A p \in SyncIds :
          /\ SyncFails(p) =>
                /\ timeOffset' = timeOffset
                /\ lastSyncTime' = lastSyncTime
                /\ sync'[p].pc = "synced"
          /\ (/\ sync[p].pc = "synced" /\ sync[p].fetched /\ sync[p].okAt = 0
              /\ sync'[p] # sync[p]) =>
                /\ sync'[p].pc = "sent"
                /\ sync'[p].timestamp = now + timeOffset
                /\ timeOffset' = timeOffset
                /\ lastSyncTime' = lastSyncTime]_vars

\* a request whose sync failed was sent with the offset of an earlier sync
C32_Witness ==
    \E p \in SyncIds :
        /\ sync[p].pc = "sent"
        /\ sync[p].fetched
        /\ sync[p].okAt = 0
        /\ timeOffset # 0
        /\ lastSyncTime # 0
        /\ lastSyncTime < sync[p].callNow

(***************************************************************************)
(* Properties of the accumulator (checked under SpecAccumulator)           *)
(***************************************************************************)
\* C12: after n appends the history holds exactly the min(n, 200) most
\* recently appended prices, in arrival order; its length never exceeds 200.
C12_HistoryKeepsLatest ==
    LET n == Len(appended)
        k == IF n < 200 THEN n ELSE 200
    IN  /\ Len(priceHistory) = k
        /\ \A i \in 1 .. k : priceHistory[i] = appended[n - k + i]

\* more than 200 prices of a moving series were appended: the oldest are gone
C12_Witness ==
    /\ Len(appended) > 200
    /\ Len(priceHistory) = 200
    /\ priceHistory[1] # appended[1]
    /\ priceHistory[200] = aIn.price

\* C13: sma(20) and sma(50) are never the number zero while the history is
\* shorter than the period (they are a distinct "undefined"), and are the
\* arithmetic mean of the last 20 (50) prices otherwise.
C13_SmaUndefinedWhenShort ==
    aOut # Null =>
        /\ IF Len(priceHistory) < 20
           THEN aOut[1].marketData.sma20 # Zero
           ELSE Mul(aOut[1].marketData.sma20, Int2Rat(20))
                    = SumSeq(SubSeq(priceHistory, Len(priceHistory) - 19,
                                    Len(priceHistory)))
        /\ IF Len(priceHistory) < 50
           THEN aOut[1].marketData.sma50 # Zero
           ELSE Mul(aOut[1].marketData.sma50, Int2Rat(50))
                    = SumSeq(SubSeq(priceHistory, Len(priceHistory) - 49,
                                    Len(priceHistory)))

\* C14: rsi(14) is exactly 50 on every history of fewer than 15 samples.
C14_RsiNeutralWhenShort ==
    (aOut # Null /\ Len(priceHistory) < 15) =>
        aOut[1].marketData.rsi = Int2Rat(50)

\* fourteen samples of a moving series: one short of a defined rsi
C14_Witness ==
    /\ aOut # Null
    /\ Len(priceHistory) = 14
    /\ priceHistory[14] # priceHistory[1]
    /\ aOut[1].marketData.rsi = Int2Rat(50)
    /\ aOut[1].signals.momentum = "NEUTRAL"

\* C20: the returned action is the one of the first rule of the ladder that
\* matches the returned signals and the balances of the call:
\* (1) OVERSOLD and BELOW_SMA: BUY min(0.30 quote, 0.30 baseAmount), 0.9;
\* (2) OVERSOLD or BELOW_SMA: BUY min(0.15 quote, 0.15 baseAmount), 0.7;
\* (3) BULLISH and quote > 50: BUY min(0.05 quote, 0.05 baseAmount), 0.5;
\* (4) OVERBOUGHT and ABOVE_SMA and base > 100: SELL 0.20 base, 0.6;
\* (5) otherwise no action.
C20_LadderFirstMatch ==
    aOut # Null =>
        LET sig   == aOut[1].signals
            act   == aOut[1].action
            quote == aIn.usdt
            base  == aIn.xrp
            r1    == sig.momentum = "OVERSOLD" /\ sig.pricePosition = "BELOW_SMA"
            r2    == sig.momentum = "OVERSOLD" \/ sig.pricePosition = "BELOW_SMA"
            r3    == sig.trend = "BULLISH" /\ Gt(quote, Int2Rat(50))
            r4    == /\ sig.momentum = "OVERBOUGHT"
                     /\ sig.pricePosition = "ABOVE_SMA"
                     /\ Gt(base, Int2Rat(100))
            Buy(f, conf) ==
                [type |-> "BUY", confidence |-> conf,
                 amount |-> Min(Mul(f, quote), Mul(f, BaseAmount))]
        IN  /\ r1 => act = Buy(Rat(30, 100), Rat(9, 10))
            /\ (~r1 /\ r2) => act = Buy(Rat(15, 100), Rat(7, 10))
            /\ (~r2 /\ r3) => act = Buy(Rat(5, 100), Rat(5, 10))
            /\ (~r2 /\ ~r3 /\ r4) =>
                    act = [type |-> "SELL", confidence |-> Rat(6, 10),
                           amount |-> Mul(Rat(20, 100), base)]
            /\ (~r2 /\ ~r3 /\ ~r4) => act = NoAction

\* the first rule fired on a BULLISH trend
C20_Witness ==
    /\ aOut # Null
    /\ aOut[1].signals.momentum = "OVERSOLD"
    /\ aOut[1].signals.pricePosition = "BELOW_SMA"
    /\ aOut[1].signals.trend = "BULLISH"
    /\ aOut[1].action.type = "BUY"
    /\ aOut[1].action.confidence = Rat(9, 10)
    /\ Gt(aOut[1].action.amount, Zero)

\* the call was given a defined rsi above 70, a defined smaShort below the
\* price and a base balance above 100
OverboughtAboveSma ==
    /\ aOut # Null
    /\ Len(priceHistory) >= SmaShort
    /\ aOut[1].marketData.rsi # NaN
    /\ Gt(aOut[1].marketData.rsi, Int2Rat(70))
    /\ Gt(aIn.price, aOut[1].marketData.sma20)
    /\ Gt(aIn.xrp, Int2Rat(100))

\* C21 as stated: whenever rsi > 70, the price is above smaShort and the base
\* balance exceeds 100, getOptimalAction returns a SELL of 0.20 times the
\* base balance.
C21_SellWhenOverbought ==
    OverboughtAboveSma =>
        /\ aOut[1].action.type = "SELL"
        /\ aOut[1].action.amount = Mul(Rat(20, 100), aIn.xrp)

\* C21 amended: whenever rsi > 70, the price is above smaShort, the base
\* balance exceeds 100 and the DCA BUY rule does not match (the trend is not
\* BULLISH or the quote balance is at most 50), getOptimalAction returns a
\* SELL of 0.20 times the base balance.
C21_SellWhenOverboughtNoDca ==
    (/\ OverboughtAboveSma
     /\ ~(aOut[1].signals.trend = "BULLISH" /\ Gt(aIn.usdt, Int2Rat(50))))
    => /\ aOut[1].action.type = "SELL"
       /\ aOut[1].action.amount = Mul(Rat(20, 100), aIn.xrp)

\* a base balance of 150 with a quote balance below 50: 30 is sold
C21_Witness ==
    /\ OverboughtAboveSma
    /\ aIn.xrp = Int2Rat(150)
    /\ ~Gt(aIn.usdt, Int2Rat(50))
    /\ aOut[1].action.type = "SELL"
    /\ aOut[1].action.amount = Int2Rat(30)

\* the twentieth call of the series of nineteen prices of 1 and one of 0.90,
\* made with a quote balance of 1000 (baseAmount is 1000)
DropCall ==
    /\ aOut # Null
    /\ appended = Append(UnitSeries, DropPrice)
    /\ aIn.usdt = Int2Rat(1000)
    /\ BaseAmount = Int2Rat(1000)

\* C22 as stated: nineteen prices of 1 and a twentieth of 0.90, with
\* baseAmount 1000 and a quote balance of 1000, yield on the twentieth call a
\* BUY whose amount is positive and at most 150.
C22_DropBuysAtMost150 ==
    DropCall =>
        /\ aOut[1].action.type = "BUY"
        /\ Gt(aOut[1].action.amount, Zero)
        /\ Le(aOut[1].action.amount, Int2Rat(150))

\* C22 amended: the same calls yield on the twentieth call the strong BUY:
\* a BUY of 300 (0.30 times 1000) with confidence 0.9.
C22_DropBuysStrong ==
    DropCall =>
        /\ aOut[1].action.type = "BUY"
        /\ aOut[1].action.amount = Int2Rat(300)
        /\ aOut[1].action.confidence = Rat(9, 10)

\* the twentieth call saw an rsi of 0 and a price below smaShort = 0.995
C22_Witness ==
    /\ DropCall
    /\ aOut[1].marketData.rsi = Zero
    /\ aOut[1].marketData.sma20 = Rat(995, 1000)
    /\ aOut[1].signals.momentum = "OVERSOLD"
    /\ aOut[1].signals.pricePosition = "BELOW_SMA"
    /\ aOut[1].action.type = "BUY"

\* C23: while the history holds fewer than 20 samples the result is never
\* the strong BUY, the DCA BUY or the SELL: it is the moderate BUY when
\* momentum is OVERSOLD and no action otherwise, and it is no action with
\* fewer than 15 samples.
C23_ShortHistoryHolds ==
    (aOut # Null /\ Len(priceHistory) < 20) =>
        LET act == aOut[1].action
        IN  /\ act.type # "SELL"
            /\ act.type = "BUY" => act.confidence = Rat(7, 10)
            /\ aOut[1].signals.momentum # "OVERSOLD" => act = NoAction
            /\ Len(priceHistory) < 15 => act = NoAction

\* fifteen to nineteen samples of a rising series, a base balance above 100
\* and a quote balance above 50: overbought, and yet no action
C23_Witness ==
    /\ aOut # Null
    /\ Len(priceHistory) >= 15
    /\ Len(priceHistory) < 20
    /\ aOut[1].signals.momentum = "OVERBOUGHT"
    /\ Gt(aIn.price, Zero)
    /\ Gt(aIn.xrp, Int2Rat(100))
    /\ Gt(aIn.usdt, Int2Rat(50))
    /\ aOut[1].action = NoAction

\* C24: every returned action is well-formed: a BUY and a SELL carry an
\* amount greater than 0 and the confidence lies in [0, 1], for every price
\* and every pair of balances that are not negative.
C24_ActionWellFormed ==
    (aOut # Null /\ Le(Zero, aIn.xrp) /\ Le(Zero, aIn.usdt)) =>
        LET act == aOut[1].action
        IN  /\ act.type \in {"BUY", "SELL"} => Gt(act.amount, Zero)
            /\ Le(Zero, act.confidence)
            /\ Le(act.confidence, Int2Rat(1))

\* C26: on every history of fewer than 50 samples the trend is BEARISH and
\* the result is not the DCA BUY.
C26_BearishWithoutSmaLong ==
    (aOut # Null /\ Len(priceHistory) < 50) =>
        /\ aOut[1].signals.trend = "BEARISH"
        /\ aOut[1].marketData.trend = "BEARISH"
        /\ ~(aOut[1].action.type = "BUY" /\ aOut[1].action.confidence = Rat(5, 10))

\* C27: with 20 samples or more pricePosition is BELOW_SMA only when the
\* price is less than smaShort; when the price equals smaShort it is
\* ABOVE_SMA, and the result is the strong or the moderate BUY only if
\* momentum is OVERSOLD.
C27_BelowSmaIsStrict ==
    (aOut # Null /\ Len(priceHistory) >= 20) =>
        LET md  == aOut[1].marketData
            sig == aOut[1].signals
            act == aOut[1].action
        IN  /\ sig.pricePosition = "BELOW_SMA" => Lt(aIn.price, md.sma20)
            /\ aIn.price = md.sma20 =>
                  /\ sig.pricePosition = "ABOVE_SMA"
                  /\ sig.momentum # "OVERSOLD" =>
                        ~(/\ act.type = "BUY"
                          /\ act.confidence \in {Rat(9, 10), Rat(7, 10)})

\* C28: rsi is a number in [0, 100], and it is 100 on every history of 15
\* samples or more whose last 14 price changes contain no decrease.
C28_RsiInRange ==
    aOut # Null =>
        LET rsi == aOut[1].marketData.rsi
            n   == Len(priceHistory)
        IN  /\ rsi # NaN
            /\ rsi # NaN => Le(Zero, rsi) /\ Le(rsi, Int2Rat(100))
            /\ (/\ n >= 15
                /\ \A i \in (n - 14) .. (n - 1) :
                       ~Lt(priceHistory[i + 1], priceHistory[i]))
               => rsi = Int2Rat(100)

(***************************************************************************)
(* Properties of adjustQuantity and validateOrder (under SpecFilters)      *)
(***************************************************************************)
\* x is a whole multiple of step
IsMultipleOf(x, step) == Div(x, step)[2] = 1
\* x has at most eight decimals
OnGrid(x) == Pow10(8) % x[2] = 0

\* C15: adjustQuantity is idempotent on every quantity and every rules with
\* stepSize > 0 and minQty <= maxQty.
C15_AdjustIdempotent ==
    (/\ Len(fAdj) = 2
     /\ Gt(fIn.rules.stepSize, Zero)
     /\ Le(fIn.rules.minQty, fIn.rules.maxQty))
    => fAdj[2] = fAdj[1]

\* C16 as stated: for every quantity >= minQty and stepSize > 0 the result
\* of adjustQuantity is a whole multiple of stepSize and is <= maxQty.
C16_ExactMultiple ==
    (/\ Len(fAdj) >= 1
     /\ Le(fIn.rules.minQty, fIn.quantity)
     /\ Gt(fIn.rules.stepSize, Zero))
    => /\ IsMultipleOf(fAdj[1], fIn.rules.stepSize)
       /\ Le(fAdj[1], fIn.rules.maxQty)

\* C16 amended: for every quantity >= minQty and every stepSize > 0 of at
\* most eight decimals the result of adjustQuantity is a whole multiple of
\* stepSize and is <= maxQty.
C16_ExactMultipleOnGrid ==
    (/\ Len(fAdj) >= 1
     /\ Le(fIn.rules.minQty, fIn.quantity)
     /\ Gt(fIn.rules.stepSize, Zero)
     /\ OnGrid(fIn.rules.stepSize))
    => /\ IsMultipleOf(fAdj[1], fIn.rules.stepSize)
       /\ Le(fAdj[1], fIn.rules.maxQty)

\* a quantity above maxQty and off the steps was clamped and floored
C16_Witness ==
    /\ Len(fAdj) >= 1
    /\ OnGrid(fIn.rules.stepSize)
    /\ Gt(fIn.quantity, fIn.rules.maxQty)
    /\ ~IsMultipleOf(fIn.rules.maxQty, fIn.rules.stepSize)
    /\ Gt(fAdj[1], Zero)
    /\ Lt(fAdj[1], fIn.rules.maxQty)

\* C17: a result with valid false has adjustedQuantity 0 and one error, the
\* one of its case (quantity below minQty, quantity adjusted to 0, notional
\* below minNotional); a result with valid true has no error and carries
\* adjustQuantity(quantity, rules), which is greater than 0.
C17_ResultWellFormed ==
    fOut # Null =>
        LET res == fOut[1]
            adj == adjustQuantity(fIn.quantity, fIn.rules)
        IN  /\ ~res.valid =>
                  /\ res.adjustedQuantity = Zero
                  /\ res.errors # <<>>
                  /\ \/ /\ res.errors = <<"below minimum">>
                        /\ Lt(fIn.quantity, fIn.rules.minQty)
                     \/ /\ res.errors = <<"adjusted quantity is 0">>
                        /\ adj = Zero
                     \/ /\ res.errors = <<"notional below minimum">>
                        /\ Lt(Mul(adj, fIn.price), fIn.rules.minNotional)
            /\ res.valid =>
                  /\ res.errors = <<>>
                  /\ res.adjustedQuantity = adj
                  /\ Gt(res.adjustedQuantity, Zero)

\* a quantity that adjusts to more than 0 was refused for its notional value
C17_Witness ==
    /\ fOut # Null
    /\ ~fOut[1].valid
    /\ fOut[1].errors = <<"notional below minimum">>
    /\ fOut[1].adjustedQuantity = Zero
    /\ Gt(adjustQuantity(fIn.quantity, fIn.rules), Zero)

\* C29: for every quantity and every rules with stepSize > 0 and
\* minQty <= maxQty, adjustQuantity returns 0 or a value between minQty and
\* maxQty, and validateOrder never returns valid with an adjustedQuantity
\* below minQty.
C29_WithinQuantityBand ==
    (Gt(fIn.rules.stepSize, Zero) /\ Le(fIn.rules.minQty, fIn.rules.maxQty)) =>
        /\ Len(fAdj) >= 1 =>
              \/ fAdj[1] = Zero
              \/ Le(fIn.rules.minQty, fAdj[1]) /\ Le(fAdj[1], fIn.rules.maxQty)
        /\ (fOut # Null /\ fOut[1].valid) =>
              ~Lt(fOut[1].adjustedQuantity, fIn.rules.minQty)

\* a <= b, by the integer parts first (keeps the products small); a value of
\* quantity * price at most v is a quantity at most v / price, price > 0
AtMost(a, b) ==
    \/ Floor(a) < Floor(b)
    \/ Floor(a) = Floor(b) /\ Le(a, b)

\* C35: the quantity of every order executeAction submits is at most the
\* raw quantity of the action (amount / price for a BUY, amount for a SELL);
\* the value of a BUY order is at most 30% of the quote balance and at most
\* 30% of the base amount, and the quantity of a SELL order is at most 20%
\* of the base balance.
C35_OrderWithinDecision ==
    (eOut # Null /\ eOut[1].submit) =>
        LET o == eOut[1]
        IN  /\ AtMost(o.quantity, RawQuantity(o.action, fIn.price))
            /\ o.side = "BUY" =>
                  /\ AtMost(o.quantity, Div(Mul(Rat(30, 100), o.usdt), fIn.price))
                  /\ AtMost(o.quantity, Div(Mul(Rat(30, 100), BaseAmount), fIn.price))
            /\ o.side = "SELL" => AtMost(o.quantity, Mul(Rat(20, 100), o.xrp))

(***************************************************************************)
(* Properties of the rules resolver (checked under SpecRules)              *)
(***************************************************************************)
\* getTradingRules call r begins in this step
RulesCalled(r) == req[r].pc = "idle" /\ req'[r].pc # "idle"
\* a metadata fetch that succeeded was issued less than CacheInterval ago
FetchedWithin ==
    \E q \in ReqIds : req[q].wrote /\ now - req[q].callNow < CacheInterval

\* C18: a getTradingRules call made less than 5 minutes after the last
\* successful metadata fetch issues no fetch; a call made on a cache miss or
\* 5 minutes or more after it issues the fetch, and the answer of a
\* successful fetch replaces the cache.
C18_CacheWithinInterval ==
    [][\A r \in ReqIds :
          /\ RulesCalled(r) =>
                IF FetchedWithin
                THEN ~req'[r].fetched /\ req'[r].info = exchangeInfo
                ELSE req'[r].fetched
          /\ (req[r].pc = "fetching" /\ req'[r].wrote) =>
                exchangeInfo' # Null /\ exchangeInfo' = req'[r].info]_vars

\* C19: getTradingRules fails, returning no rules, whenever the metadata it
\* is given does not list the symbol or lists it without a LOT_SIZE filter
\* or without a MIN_NOTIONAL / NOTIONAL filter.
C19_RulesUnavailable ==
    \A r \in ReqIds :
        (/\ req[r].info # Null
         /\ LET symbolInfo == FindSymbol(req[r].info[1], req[r].symbol)
            IN  \/ symbolInfo = Null
                \/ symbolInfo[1].lotSize = Null
                \/ symbolInfo[1].notional = Null)
        => (req[r].pc = "failed" /\ req[r].rules = Null)

\* C30: every TradingRules value returned by getTradingRules has
\* minQty <= maxQty and stepSize > 0, whatever the filters of the metadata.
C30_RulesInvariant ==
    \A r \in ReqIds :
        req[r].rules # Null =>
            /\ Le(req[r].rules[1].minQty, req[r].rules[1].maxQty)
            /\ Gt(req[r].rules[1].stepSize, Zero)

\* C33: at most one metadata fetch is in flight in every reachable state.
C33_SingleFetchInFlight ==
    Cardinality({r \in ReqIds : req[r].pc = "fetching"}) <= 1

\* C36: a call never returns metadata of the other environment: the
\* metadata a getTradingRules call was given was fetched with the call's own
\* testnet flag.
C36_NeverAcrossEnvironments ==
    \A r \in ReqIds :
        req[r].info # Null => req[r].info[1].testnet = req[r].testnet

\* the fetch of call r fails in this step
FetchFails(r) == req[r].pc = "fetching" /\ req'[r].error = "fetch failed"
\* call r has failed on its fetch
FetchFailed(r) == req[r].pc = "failed" /\ req[r].error = "fetch failed"
\* the cache test of getExchangeInfo at the current time
CacheFresh == exchangeInfo # Null /\ now - lastFetch < CacheInterval

\* C37: a failed metadata fetch raises an error and leaves the cached
\* metadata and the last-fetch time as they were, and a call that begins
\* after a failed fetch, the cache being as stale as it was, issues a fetch.
C37_FailedFetchChangesNothing ==
    [][\A r \in ReqIds :
          /\ FetchFails(r) =>
                /\ req'[r].pc = "failed" /\ req'[r].rules = Null
                /\ ~req'[r].wrote
                /\ exchangeInfo' = exchangeInfo
                /\ lastFetch' = lastFetch
          /\ (RulesCalled(r) /\ ~CacheFresh /\ \E q \in ReqIds : FetchFailed(q))
                => req'[r].fetched]_vars
\* a refresh of an expired cache has failed, the value cached before is
\* still there, and the call after it has issued a fetch
C37_Witness ==
    \E q, r \in ReqIds :
        /\ FetchFailed(q)
        /\ exchangeInfo # Null /\ req[q].callNow - lastFetch >= CacheInterval
        /\ q < r /\ req[r].fetched

(***************************************************************************)
(* Properties of the stop-loss engine (checked under SpecStopLoss)         *)
(***************************************************************************)
\* timer callback c calls stopLossOrder in this step
TeSubmits(c) == proc[c].pc # "stopLossOrder" /\ proc'[c].pc = "stopLossOrder"

\* C38: as stated: a stop-loss order is submitted only on a state, as the
\* callback's updateState left it, with position = holding, base balance
\* above minTradeAmount, no open orders and the engine active, and never by
\* a callback that began after stop() or during whose updateState stop()
\* was called.
C38_StopPreventsOrder ==
    [][\A c \in TeCycleIds :
          TeSubmits(c) =>
              /\ PlacesStopLoss(state')
              /\ state'.isActive
              /\ ~proc[c].stopSeen]_vars

\* C38, amended: a stop-loss order is submitted only on a state, as the
\* callback's updateState left it, with position = holding, base balance
\* above minTradeAmount, no open orders and the engine active; the latest
\* of start() and stop() called by then is start(), so a stop() that no
\* start() has followed prevents the order.
C38_OrderOnlyWhenActive ==
    [][\A c \in TeCycleIds :
          TeSubmits(c) =>
              /\ PlacesStopLoss(state')
              /\ state'.isActive
              /\ teLastCall = "start"
              /\ proc'[c].order =
                    Some([side |-> "SELL", quantity |-> state'.baseBalance,
                          stopPrice |-> StopPrice(state')])]_vars
\* a callback whose state passed the stop-loss test ended without an order
\* because stop() was called during its updateState, and a later callback
\* has submitted its order
C38_Witness ==
    \E c, d \in TeCycleIds :
        /\ proc[c].pc = "done" /\ proc[c].stopSeen /\ proc[c].eligible
        /\ proc[c].order = Null
        /\ c < d /\ proc[d].pc = "stopLossOrder" /\ ~proc[d].stopSeen

\* C39: no stop-loss order is submitted while an earlier one is open on the
\* exchange.
C39_NoSecondStopLoss ==
    [][\A c \in TeCycleIds : TeSubmits(c) => exchange.open = <<>>]_vars

====
